---- MODULE Spec2Model ----
(***************************************************************************)
(* Techolution_PRM backend: tabular ingestion of Resources and Projects    *)
(* (backend/app/routes_data.py) on top of an ORM session and a relational  *)
(* store (backend/app/db.py, backend/app/models_db.py).                    *)
(*                                                                         *)
(* Text is modelled by TLA+ strings; TLC evaluates Len, \o, SubSeq on      *)
(* strings, so strip / lower / replace are computed character by character.*)
(***************************************************************************)
EXTENDS Integers, Sequences, FiniteSets, TLC

VARIABLES
    store,   \* committed rows of the tables "resources" and "projects"
    up,      \* per worker: the upload request being served and its locals
    sess,    \* per worker: the ORM session (transaction state, pending writes)
    co,      \* the cell coercer under evaluation (input cell, function, result)
    crud,    \* per worker: the CRUD or dataset request being served
    conv,    \* the conversation files, their locks and the clock
    cv       \* per worker: the conversation request being served

vars == <<store, up, sess, co, crud, conv, cv>>

(***************************************************************************)
(* Text helpers (Python str methods)                                       *)
(***************************************************************************)
Ch(s, i) == SubSeq(s, i, i)

IsSpace(c) == c \in {" ", "\t", "\n", "\r"}

RECURSIVE LStrip(_)
LStrip(s) ==
    IF Len(s) > 0 /\ IsSpace(Ch(s, 1)) THEN LStrip(SubSeq(s, 2, Len(s))) ELSE s

RECURSIVE RStrip(_)
RStrip(s) ==
    IF Len(s) > 0 /\ IsSpace(Ch(s, Len(s))) THEN RStrip(SubSeq(s, 1, Len(s) - 1)) ELSE s

\* str.strip()
Strip(s) == RStrip(LStrip(s))

LowerMap ==
    "A" :> "a" @@ "B" :> "b" @@ "C" :> "c" @@ "D" :> "d" @@ "E" :> "e" @@ "F" :> "f" @@ "G" :> "g" @@
    "H" :> "h" @@ "I" :> "i" @@ "J" :> "j" @@ "K" :> "k" @@ "L" :> "l" @@ "M" :> "m" @@ "N" :> "n" @@
    "O" :> "o" @@ "P" :> "p" @@ "Q" :> "q" @@ "R" :> "r" @@ "S" :> "s" @@ "T" :> "t" @@ "U" :> "u" @@
    "V" :> "v" @@ "W" :> "w" @@ "X" :> "x" @@ "Y" :> "y" @@ "Z" :> "z"

LowerCh(c) == IF c \in DOMAIN LowerMap THEN LowerMap[c] ELSE c

\* str.lower()
RECURSIVE Lower(_)
Lower(s) ==
    IF Len(s) = 0 THEN "" ELSE LowerCh(Ch(s, 1)) \o Lower(SubSeq(s, 2, Len(s)))

\* str.replace(old, new) for a one-character old
RECURSIVE Replace(_, _, _)
Replace(s, old, new) ==
    IF Len(s) = 0 THEN ""
    ELSE (IF Ch(s, 1) = old THEN new ELSE Ch(s, 1)) \o Replace(SubSeq(s, 2, Len(s)), old, new)

\* str.split(sep) for a one-character sep: the pieces, empty ones included
RECURSIVE SplitAt(_, _, _)
SplitAt(s, sep, acc) ==
    IF Len(s) = 0 THEN <<acc>>
    ELSE IF Ch(s, 1) = sep THEN <<acc>> \o SplitAt(SubSeq(s, 2, Len(s)), sep, "")
    ELSE SplitAt(SubSeq(s, 2, Len(s)), sep, acc \o Ch(s, 1))

Split(s, sep) == SplitAt(s, sep, "")

Range(f) == {f[i] : i \in DOMAIN f}

(***************************************************************************)
(* Header normalisation and column resolution                              *)
(***************************************************************************)
_norm_header(h) ==
    Replace(Replace(Replace(Replace(Replace(Lower(Strip(h)),
        " ", "_"), "(", ""), ")", ""), "₹", "inr"), "/", "_")

\* the mappings keep the source's order of fields and of aliases
_RES_MAPPING == <<
    [key |-> "resource_id",           aliases |-> <<"resource_id", "id">>],
    [key |-> "name",                  aliases |-> <<"name", "full_name">>],
    [key |-> "role",                  aliases |-> <<"role", "designation">>],
    [key |-> "skills",                aliases |-> <<"skills", "skillset">>],
    [key |-> "proficiency_level",     aliases |-> <<"proficiency_level", "proficiency", "skill_level">>],
    [key |-> "capacity_hrs_per_week", aliases |-> <<"capacity_hrs_per_week", "capacity", "weekly_capacity">>],
    [key |-> "current_commitments",   aliases |-> <<"current_commitments", "commitments">>],
    [key |-> "availability_date",     aliases |-> <<"availability_date", "available_from">>],
    [key |-> "location_timezone",     aliases |-> <<"location_timezone", "location_time_zone", "timezone", "location">>],
    [key |-> "employment_type",       aliases |-> <<"employment_type", "employment", "emp_type">>],
    [key |-> "cost_per_hour_inr",     aliases |-> <<"cost_per_hour_inr", "cost_per_hour", "rate_inr", "hourly_rate_inr">>] >>

_PROJ_MAPPING == <<
    [key |-> "id",                   aliases |-> <<"project_id", "id", "p_id">>],
    [key |-> "name",                 aliases |-> <<"project_name", "name", "title">>],
    [key |-> "problemStatement",     aliases |-> <<"summary", "problem_statement", "description">>],
    [key |-> "requiredSkills",       aliases |-> <<"required_skills", "skills">>],
    [key |-> "requiredSeniorityMix", aliases |-> <<"staffing_mix", "target_staffing_mix">>],
    [key |-> "startDate",            aliases |-> <<"start_date", "kickoff", "start">>],
    [key |-> "endDate",              aliases |-> <<"end_date", "finish", "end">>],
    [key |-> "milestones",           aliases |-> <<"milestones", "phases", "plan">>],
    [key |-> "targetStaffing",       aliases |-> <<"required_roles", "roles">>],
    [key |-> "priority",             aliases |-> <<"priority", "prio">>],
    [key |-> "budget",               aliases |-> <<"budget_inr", "budget", "cost_inr">>],
    [key |-> "compliance",           aliases |-> <<"compliance", "constraints">>] >>

MappingOf(kind) == IF kind = "resource" THEN _RES_MAPPING ELSE _PROJ_MAPPING

\* the first alias of a field that is a column of the table, "" when there is none
FirstAlias(aliases, columns) ==
    IF \E i \in 1..Len(aliases) : aliases[i] \in Range(columns)
    THEN aliases[CHOOSE i \in 1..Len(aliases) :
            /\ aliases[i] \in Range(columns)
            /\ \A j \in 1..(i - 1) : aliases[j] \notin Range(columns)]
    ELSE ""

\* resolved: {field: actual column}, a function on the fields that resolved
_resolve_columns(columns, mapping) ==
    LET keys == {mapping[i].key : i \in 1..Len(mapping)}
        al(k) == mapping[CHOOSE i \in 1..Len(mapping) : mapping[i].key = k].aliases
        found == {k \in keys : FirstAlias(al(k), columns) # ""}
    IN  [k \in found |-> FirstAlias(al(k), columns)]

\* the fields each upload handler tests for after resolution
RequiredKeys(kind) ==
    IF kind = "resource" THEN <<"resource_id", "name", "role", "skills">>
    ELSE <<"project_id", "name">>

\* required = [k for k in (...) if k not in resolved]
MissingRequired(kind, resolved) ==
    SelectSeq(RequiredKeys(kind), LAMBDA k : k \notin DOMAIN resolved)

(***************************************************************************)
(* Raw cells and typed values                                              *)
(*                                                                         *)
(* A cell of the parsed table is a string, a number, the blank-cell marker *)
(* NaN, or None (what Series.get yields for a column that did not          *)
(* resolve).  For a number, s is Python's str() of it.  A coerced value    *)
(* has the same shape: t names its type, s holds its canonical text.       *)
(***************************************************************************)
StrCell(s) == [t |-> "str", s |-> s]
NumCell(s) == [t |-> "num", s |-> s]
NaNCell    == [t |-> "nan", s |-> ""]
NoneCell   == [t |-> "none", s |-> ""]

Absent     == [t |-> "none", s |-> ""]
Raised(e)  == [t |-> "raise", s |-> e]

\* str(val)
PyStr(c) ==
    CASE c.t = "nan"  -> "nan"
      [] c.t = "none" -> "None"
      [] OTHER        -> c.s

\* pd.isna(val) for a scalar
IsNa(c) == c.t \in {"nan", "none"}

\* Python truthiness of a cell: None, "", 0 and 0.0 are falsy; NaN is truthy
Truthy(c) ==
    CASE c.t = "none" -> FALSE
      [] c.t = "str"  -> c.s # ""
      [] c.t = "num"  -> c.s \notin {"0", "0.0", "-0.0"}
      [] OTHER        -> TRUE

DigitMap ==
    "0" :> 0 @@ "1" :> 1 @@ "2" :> 2 @@ "3" :> 3 @@ "4" :> 4 @@
    "5" :> 5 @@ "6" :> 6 @@ "7" :> 7 @@ "8" :> 8 @@ "9" :> 9

IsDigit(c) == c \in DOMAIN DigitMap
DigitVal(c) == DigitMap[c]
AllDigits(s) == \A i \in 1..Len(s) : IsDigit(Ch(s, i))

RECURSIVE ToNat(_)
ToNat(s) == IF Len(s) = 0 THEN 0 ELSE 10 * ToNat(SubSeq(s, 1, Len(s) - 1)) + DigitVal(Ch(s, Len(s)))

RECURSIVE DropZeros(_)
DropZeros(s) == IF Len(s) > 1 /\ Ch(s, 1) = "0" THEN DropZeros(SubSeq(s, 2, Len(s))) ELSE s

RECURSIVE DropTrailingZeros(_)
DropTrailingZeros(s) ==
    IF Len(s) > 1 /\ Ch(s, Len(s)) = "0" THEN DropTrailingZeros(SubSeq(s, 1, Len(s) - 1)) ELSE s

(***************************************************************************)
(* Cell coercers                                                           *)
(***************************************************************************)
\* [x.strip() for x in s.replace(";", ",").split(",") if x.strip()]
_split_list(val) ==
    IF val.t = "none" THEN <<>>
    ELSE LET s == Strip(PyStr(val)) IN
         IF s = "" THEN <<>>
         ELSE LET pieces == Split(Replace(s, ";", ","), ",")
                  kept   == SelectSeq(pieces, LAMBDA x : Strip(x) # "")
              IN  [i \in 1..Len(kept) |-> Strip(kept[i])]

\* float(s) on the decimal literals and the special names; ok = FALSE when
\* float() raises ValueError.  Exponents and digit-group underscores are left
\* out of the literals modelled.
FloatLit(s) ==
    LET signed == Len(s) > 0 /\ Ch(s, 1) \in {"+", "-"}
        neg    == Len(s) > 0 /\ Ch(s, 1) = "-"
        body   == IF signed THEN SubSeq(s, 2, Len(s)) ELSE s
        parts  == Split(body, ".")
        ip     == parts[1]
        fp     == IF Len(parts) = 2 THEN parts[2] ELSE ""
    IN  IF Lower(body) \in {"nan"} THEN [ok |-> TRUE, special |-> "nan", neg |-> neg, ip |-> "", fp |-> ""]
        ELSE IF Lower(body) \in {"inf", "infinity"} THEN [ok |-> TRUE, special |-> "inf", neg |-> neg, ip |-> "", fp |-> ""]
        ELSE IF /\ Len(parts) <= 2
                /\ AllDigits(ip) /\ AllDigits(fp)
                /\ Len(ip) + Len(fp) > 0
             THEN [ok |-> TRUE, special |-> "", neg |-> neg, ip |-> ip, fp |-> fp]
             ELSE [ok |-> FALSE, special |-> "", neg |-> FALSE, ip |-> "", fp |-> ""]

\* int(float(s)): truncation toward zero; int(nan) raises ValueError and
\* int(inf) raises OverflowError, both caught
_parse_int(val) ==
    IF val.t = "none" THEN Absent
    ELSE IF IsNa(val) THEN Absent
    ELSE LET s == Replace(Strip(PyStr(val)), ",", "")
             f == FloatLit(s)
             mag == DropZeros(IF f.ip = "" THEN "0" ELSE f.ip)
         IN  IF s = "" THEN Absent
             ELSE IF ~f.ok \/ f.special # "" THEN Absent
             ELSE [t |-> "int", s |-> (IF f.neg /\ mag # "0" THEN "-" ELSE "") \o mag]

_parse_float(val) ==
    IF val.t = "none" THEN Absent
    ELSE IF IsNa(val) THEN Absent
    ELSE LET s == Replace(Strip(PyStr(val)), ",", "")
             f == FloatLit(s)
             mag == DropZeros(IF f.ip = "" THEN "0" ELSE f.ip)
             frac == DropTrailingZeros(IF f.fp = "" THEN "0" ELSE f.fp)
         IN  IF s = "" THEN Absent
             ELSE IF ~f.ok THEN Absent
             ELSE IF f.special # "" THEN [t |-> "float", s |-> (IF f.neg THEN "-" ELSE "") \o f.special]
             ELSE [t |-> "float", s |-> (IF f.neg THEN "-" ELSE "") \o mag \o "." \o frac]

\* the enumerations of models_db.py: <<symbolic name, value>>
Proficiency == << <<"Beginner", "Beginner">>, <<"Intermediate", "Intermediate">>,
                  <<"Advanced", "Advanced">>, <<"Expert", "Expert">> >>
EmploymentType == << <<"Intern", "Intern">>, <<"FullTime", "Full-time">>,
                     <<"Contractor", "Contractor">> >>
Priority == << <<"Low", "Low">>, <<"Medium", "Medium">>, <<"High", "High">> >>

\* enum_cls(value) succeeds only for a string equal to a member's value; in the
\* handler of its failure, value.lower() raises AttributeError for a value that
\* is no string, and nothing catches that
_enum_or_none(enum_cls, value) ==
    IF ~Truthy(value) THEN Absent
    ELSE IF value.t = "str" /\ \E i \in 1..Len(enum_cls) : enum_cls[i][2] = value.s
         THEN [t |-> "enum", s |-> value.s]
    ELSE IF value.t # "str" THEN Raised("AttributeError")
    ELSE LET hit(i) == \/ Lower(enum_cls[i][2]) = Lower(value.s)
                       \/ Lower(enum_cls[i][1]) = Lower(value.s)
         IN  IF \E i \in 1..Len(enum_cls) : hit(i)
             THEN [t |-> "enum",
                   s |-> enum_cls[CHOOSE i \in 1..Len(enum_cls) :
                            hit(i) /\ \A j \in 1..(i - 1) : ~hit(j)][2]]
             ELSE Absent

(***************************************************************************)
(* Date coercion                                                           *)
(***************************************************************************)
IsLeap(y) == (y % 4 = 0 /\ y % 100 # 0) \/ y % 400 = 0

DaysIn(y, m) ==
    CASE m \in {1, 3, 5, 7, 8, 10, 12} -> 31
      [] m \in {4, 6, 9, 11}           -> 30
      [] OTHER                         -> IF IsLeap(y) THEN 29 ELSE 28

Pad2(s) == IF Len(s) = 1 THEN "0" \o s ELSE s

\* the formats tried in order: separator, and the positions of year, month, day
DateFormats == <<
    [sep |-> "-", y |-> 1, m |-> 2, d |-> 3],      \* %Y-%m-%d
    [sep |-> "-", y |-> 3, m |-> 2, d |-> 1],      \* %d-%m-%Y
    [sep |-> "/", y |-> 3, m |-> 2, d |-> 1],      \* %d/%m/%Y
    [sep |-> "/", y |-> 1, m |-> 2, d |-> 3],      \* %Y/%m/%d
    [sep |-> "/", y |-> 3, m |-> 1, d |-> 2] >>    \* %m/%d/%Y

\* datetime.strptime(s, fmt) succeeds: %Y is four digits, %m and %d one or two
StrpOk(s, f) ==
    LET parts == Split(s, f.sep) IN
    /\ Len(parts) = 3
    /\ \A i \in 1..3 : Len(parts[i]) > 0 /\ AllDigits(parts[i])
    /\ Len(parts[f.y]) = 4 /\ ToNat(parts[f.y]) >= 1
    /\ Len(parts[f.m]) \in 1..2 /\ ToNat(parts[f.m]) \in 1..12
    /\ Len(parts[f.d]) \in 1..2
    /\ ToNat(parts[f.d]) \in 1..DaysIn(ToNat(parts[f.y]), ToNat(parts[f.m]))

StrpDate(s, f) ==
    LET parts == Split(s, f.sep) IN
    [t |-> "date", s |-> parts[f.y] \o "-" \o Pad2(parts[f.m]) \o "-" \o Pad2(parts[f.d])]

\* pd.to_datetime(val).date() inside try/except: the general-purpose inference
\* of the table library either finds a date or raises, and the raise is
\* caught.  Which of the two happens for a given text is the library's
\* business: infers is that outcome.
FallbackDate(val, infers) ==
    IF infers THEN [t |-> "date", s |-> "inferred"] ELSE Absent

_to_date(val, infers) ==
    IF val.t = "none" THEN Absent
    ELSE IF IsNa(val) THEN Absent
    ELSE LET s == Strip(PyStr(val)) IN
         IF s = "" THEN Absent
         ELSE IF \E i \in 1..Len(DateFormats) : StrpOk(s, DateFormats[i])
              THEN StrpDate(s, DateFormats[CHOOSE i \in 1..Len(DateFormats) :
                        /\ StrpOk(s, DateFormats[i])
                        /\ \A j \in 1..(i - 1) : ~StrpOk(s, DateFormats[j])])
              ELSE FallbackDate(val, infers)

(***************************************************************************)
(* Row mapper                                                              *)
(***************************************************************************)
\* x_user_id or user or "default"; an absent header or query parameter is ""
UserIdOf(req) ==
    IF req.x_user_id # "" THEN req.x_user_id
    ELSE IF req.user # "" THEN req.user
    ELSE "default"

\* df.columns = [_norm_header(c) for c in df.columns]
NormColumns(headers) == [i \in 1..Len(headers) |-> _norm_header(headers[i])]

\* r.get(resolved.get(key), default): the cell of the column the field resolved
\* to, the default when the field did not resolve
GetCell(r, columns, resolved, key, default) ==
    IF key \in DOMAIN resolved
    THEN r[CHOOSE i \in 1..Len(columns) : columns[i] = resolved[key]]
    ELSE default

\* str(...).strip() or None
StrOrNone(c) == IF Strip(PyStr(c)) = "" THEN Absent ELSE StrCell(Strip(PyStr(c)))

\* Resource(...) of upload_resources_xlsx; exc names the exception raised while
\* the arguments are evaluated, "" when none is
BuildResource(r, columns, resolved, req) ==
    LET g(key, default) == GetCell(r, columns, resolved, key, default)
        prof == _enum_or_none(Proficiency, g("proficiency_level", NoneCell))
        emp  == _enum_or_none(EmploymentType, g("employment_type", NoneCell))
    IN  IF "resource_id" \notin DOMAIN resolved THEN [exc |-> "KeyError", obj |-> Absent]
        ELSE IF prof.t = "raise" THEN [exc |-> prof.s, obj |-> Absent]
        ELSE IF emp.t = "raise" THEN [exc |-> emp.s, obj |-> Absent]
        ELSE [exc |-> "",
              obj |-> [id                    |-> Strip(PyStr(g("resource_id", NoneCell))),
                       name                  |-> Strip(PyStr(g("name", StrCell("")))),
                       role                  |-> Strip(PyStr(g("role", StrCell("")))),
                       skills                |-> _split_list(g("skills", NoneCell)),
                       proficiency_level     |-> prof,
                       capacity_hrs_per_week |-> _parse_int(g("capacity_hrs_per_week", NoneCell)),
                       current_commitments   |-> StrOrNone(g("current_commitments", StrCell(""))),
                       availability_date     |-> _to_date(g("availability_date", NoneCell), FALSE),
                       location_timezone     |-> StrOrNone(g("location_timezone", StrCell(""))),
                       employment_type       |-> emp,
                       cost_per_hour_inr     |-> _parse_float(g("cost_per_hour_inr", NoneCell)),
                       conversation_id       |-> req.conversation_id,
                       user_id               |-> UserIdOf(req)]]

\* Project(...) of upload_projects_xlsx: it reads resolved under the column
\* names of the table "projects", the resolution map is keyed by the fields of
\* _PROJ_MAPPING
BuildProject(r, columns, resolved, req) ==
    LET g(key, default) == GetCell(r, columns, resolved, key, default)
        prio == _enum_or_none(Priority, g("priority", NoneCell))
    IN  IF "project_id" \notin DOMAIN resolved THEN [exc |-> "KeyError", obj |-> Absent]
        ELSE IF prio.t = "raise" THEN [exc |-> prio.s, obj |-> Absent]
        ELSE [exc |-> "",
              obj |-> [id              |-> Strip(PyStr(g("project_id", NoneCell))),
                       name            |-> Strip(PyStr(g("name", StrCell("")))),
                       summary         |-> StrOrNone(g("summary", StrCell(""))),
                       required_skills |-> _split_list(g("required_skills", NoneCell)),
                       staffing_mix    |-> StrOrNone(g("staffing_mix", StrCell(""))),
                       start_date      |-> _to_date(g("start_date", NoneCell), FALSE),
                       end_date        |-> _to_date(g("end_date", NoneCell), FALSE),
                       milestones      |-> StrOrNone(g("milestones", StrCell(""))),
                       required_roles  |-> StrOrNone(g("required_roles", StrCell(""))),
                       priority        |-> prio,
                       budget_inr      |-> _parse_int(g("budget_inr", NoneCell)),
                       compliance      |-> StrOrNone(g("compliance", StrCell(""))),
                       conversation_id |-> req.conversation_id,
                       user_id         |-> UserIdOf(req)]]

BuildRow(kind, r, columns, resolved, req) ==
    IF kind = "resource" THEN BuildResource(r, columns, resolved, req)
    ELSE BuildProject(r, columns, resolved, req)

(***************************************************************************)
(* Relational store and ORM session                                        *)
(*                                                                         *)
(* store[kind] is the committed content of a table, one row per primary    *)
(* key (resource_id, project_id).  A session holds one transaction: tx is  *)
(* what its flushes wrote and nobody else sees before the commit.          *)
(***************************************************************************)
Kinds == {"resource", "project"}

\* Column(Integer): a 32-bit signed integer
PgIntMax == "2147483647"

RECURSIVE DigitsLeq(_, _)
DigitsLeq(a, b) ==
    IF Len(a) = 0 THEN TRUE
    ELSE IF Ch(a, 1) # Ch(b, 1) THEN DigitVal(Ch(a, 1)) < DigitVal(Ch(b, 1))
    ELSE DigitsLeq(SubSeq(a, 2, Len(a)), SubSeq(b, 2, Len(b)))

IntFits(v) ==
    \/ v.t = "none"
    \/ LET mag == IF Ch(v.s, 1) = "-" THEN SubSeq(v.s, 2, Len(v.s)) ELSE v.s
       IN  \/ Len(mag) < Len(PgIntMax)
           \/ Len(mag) = Len(PgIntMax) /\ DigitsLeq(mag, PgIntMax)

\* the INSERT or UPDATE a flush emits is refused by the store
FlushViolates(kind, obj) ==
    IF kind = "resource" THEN ~IntFits(obj.capacity_hrs_per_week)
    ELSE ~IntFits(obj.budget_inr)

NoSession == [state |-> "closed", tx |-> {}, ops |-> <<>>]

\* db.merge(obj): a SELECT by primary key, then the state of obj is copied onto
\* the persistent instance.  It raises once a failed flush has rolled the
\* session's transaction back (PendingRollbackError).
MergeRaises(s) == s.state = "deactive"

Merged(s) == [s EXCEPT !.state = "active", !.ops = @ \o <<"merge">>]

\* faulty variant: every flushed row is committed on its own
Flushed_CommitPerRow(s, kind, obj) ==
    IF FlushViolates(kind, obj)
    THEN [s EXCEPT !.state = "deactive", !.tx = {}, !.ops = @ \o <<"flush">>]
    ELSE [s EXCEPT !.tx = {w \in @ : w.id # obj.id} \cup {obj}, !.ops = @ \o <<"flush", "commit">>]

\* db.flush() after the merge of obj: the row is written inside the
\* transaction, over any row of the same key it wrote before.  When the store
\* refuses the statement the session rolls its transaction back, everything
\* flushed so far included, and stays unusable until rollback() is called.
Flushed(s, kind, obj) ==
    IF FlushViolates(kind, obj)
    THEN [s EXCEPT !.state = "deactive", !.tx = {}, !.ops = @ \o <<"flush">>]
    ELSE [s EXCEPT !.tx = {w \in @ : w.id # obj.id} \cup {obj}, !.ops = @ \o <<"flush">>]

\* db.commit() succeeds when the session has begun no transaction (there is
\* nothing to send), or when its transaction is usable and the store accepts it
CommitOk(s, dbOk) == s.state = "closed" \/ (s.state = "active" /\ dbOk)

\* faulty variant: the rows of tx are inserted beside the rows they replace
Upserted_InsertOnly(rows, tx) == rows \cup tx

\* the table after the commit of tx: upsert by primary key
Upserted(rows, tx) == {w \in rows : \A n \in tx : n.id # w.id} \cup tx

Committed(s) == [s EXCEPT !.state = "closed", !.tx = {}, !.ops = @ \o <<"commit">>]

\* db.commit() raised, then db.rollback()
RolledBack(s) == [s EXCEPT !.state = "closed", !.tx = {}, !.ops = @ \o <<"commit", "rollback">>]

(***************************************************************************)
(* Uploaded files, requests                                                *)
(***************************************************************************)
MaxRows == 2

ROW_ERROR_LIMIT == 10

Workers == {"w1", "w2"}

\* what is uploaded to either endpoint: a raw header row and the rows a table
\* under it is made of.  The headers need trimming, lower-casing, underscores
\* and the removal of parentheses; they spell the required fields by their
\* first and by their later aliases, or leave some out.  The cells are
\* strings, numbers and blanks.
Sheets == {
    [headers |-> <<"Resource ID", "Full Name", " ROLE ", "Skill(s)">>,
     rows    |-> { <<StrCell("R1"), StrCell("Ann"), StrCell("Dev"), StrCell("Python, Go; Rust")>>,
                   <<StrCell(" R2 "), StrCell("Bob"), StrCell("QA"), StrCell("Go")>> }],
    [headers |-> <<"id", "name", "designation", "skillset", "Proficiency">>,
     rows    |-> { <<StrCell("R1"), StrCell("Cy"), StrCell("Dev"), StrCell("Go"), StrCell("expert")>>,
                   <<StrCell("R2"), StrCell("Dee"), StrCell("Dev"), StrCell("Go"), NaNCell>> }],
    [headers |-> <<"resource_id", "name", "role", "skills", "Capacity">>,
     rows    |-> { <<StrCell("R1"), StrCell("Cy"), StrCell("Dev"), StrCell("Go"), NumCell("40")>>,
                   <<StrCell("R2"), StrCell("Dee"), StrCell("Dev"), StrCell("Go"), NumCell("99999999999")>> }],
    [headers |-> <<"Name", "Role", "Skills">>,
     rows    |-> { <<StrCell("Cy"), StrCell("Dev"), StrCell("Go")>> }],
    [headers |-> <<"Project ID", "Title">>,
     rows    |-> { <<StrCell(" P1"), StrCell("Apollo")>> }],
    [headers |-> <<"p_id", "summary">>,
     rows    |-> { <<StrCell("P1"), StrCell("text")>> }],
    [headers |-> <<>>, rows |-> {}] }

TablesOf(sheet) == UNION {[1..n -> sheet.rows] : n \in 0..MaxRows}

\* a file the table reader cannot parse (zero bytes, not a workbook, ...)
BadFile == [parses |-> FALSE, headers |-> <<>>, rows |-> <<>>]

Files ==
    {BadFile} \cup
    UNION {{[parses |-> TRUE, headers |-> sh.headers, rows |-> t] : t \in TablesOf(sh)} : sh \in Sheets}

\* conversation_id (form), user (query), X-User-ID (header)
Requests == {
    [conversation_id |-> "c1", user |-> "", x_user_id |-> ""],
    [conversation_id |-> "c2", user |-> "bob", x_user_id |-> "alice"] }

EmptyStore == [k \in Kinds |-> {}]

NoResp == [status |-> 0]

NoRepeat == [on |-> FALSE, resp |-> NoResp]

IdleUpload ==
    [pc |-> "idle", kind |-> "resource", req |-> CHOOSE q \in Requests : TRUE,
     file |-> BadFile, columns_seen |-> <<>>, resolved |-> <<>>,
     idx |-> 0, ok |-> 0, failed |-> 0, row_errors |-> <<>>, resp |-> NoResp,
     outcomes |-> <<>>, store0 |-> EmptyStore, dbOk |-> TRUE,
     rep |-> NoRepeat, found |-> FALSE, conc |-> {}, after |-> {}]

Terminal == {"read_failed", "empty", "aborted", "done", "rolled_back"}

(***************************************************************************)
(* upload_resources_xlsx / upload_projects_xlsx, step by step              *)
(***************************************************************************)
\* the request arrives; get_db opens a session for it.  outcomes, store0,
\* dbOk and rep are history: what each row's attempt ended with, the store when
\* the request arrived, whether the store would accept the commit, and the
\* previous response when the same file is sent again.  conc and after are
\* history too: the uploads under way when this one arrived, and the uploads
\* that had committed when this one did.
Begin(w, kind, file, req, rep) ==
    /\ up' = [up EXCEPT ![w] =
                [IdleUpload EXCEPT
                    !.pc = "reading", !.kind = kind, !.req = req, !.file = file,
                    !.store0 = store, !.rep = rep,
                    !.conc = {v \in Workers \ {w} : up[v].pc \notin Terminal \cup {"idle"}}]]
    /\ sess' = [sess EXCEPT ![w] = NoSession]
    /\ UNCHANGED <<store, co, crud, conv, cv>>

StartUpload(w, kind, file, req) ==
    /\ up[w].pc = "idle"
    /\ crud[w].pc = "idle"
    /\ Begin(w, kind, file, req, NoRepeat)

\* the client sends the file of a completed upload again, with the same form
\* fields, before any other request is served
Resend(w) ==
    /\ up[w].pc = "done"
    /\ Begin(w, up[w].kind, up[w].file, up[w].req, [on |-> TRUE, resp |-> up[w].resp])

\* the response is sent; get_db closes the session
Finish(w) ==
    /\ up[w].pc \in Terminal
    /\ up' = [up EXCEPT ![w] = IdleUpload]
    /\ sess' = [sess EXCEPT ![w] = NoSession]
    /\ UNCHANGED <<store, co, crud, conv, cv>>

\* faulty variant: only a table without columns counts as empty
DfEmpty_NoColumnsOnly(file) == Len(file.headers) = 0

\* df.empty: no rows or no columns
DfEmpty(file) == Len(file.rows) = 0 \/ Len(file.headers) = 0

EmptyResp ==
    [status |-> 200, ok |-> TRUE, rows_ingested |-> 0, rows_failed |-> 0,
     note |-> "No non-empty sheets", columns_seen |-> <<>>]

\* _read_any_table, the empty short-circuit, the normalisation of the headers
ReadFile(w) ==
    LET u == up[w] IN
    /\ u.pc = "reading"
    /\ up' = [up EXCEPT ![w] =
                IF ~u.file.parses
                THEN [u EXCEPT !.pc = "read_failed", !.resp = [status |-> 500]]
                ELSE IF DfEmpty(u.file)
                THEN [u EXCEPT !.pc = "empty", !.resp = EmptyResp]
                ELSE [u EXCEPT !.pc = "resolving",
                               !.columns_seen = NormColumns(u.file.headers)]]
    /\ UNCHANGED <<store, sess, co, crud, conv, cv>>

MissingResp(required, columns_seen, resolved) ==
    [status |-> 422, error |-> "Missing required columns", required_missing |-> required,
     columns_seen |-> columns_seen, resolved |-> resolved]

\* _resolve_columns and the test for the required fields
ResolveColumns(w) ==
    LET u == up[w]
        resolved == _resolve_columns(u.columns_seen, MappingOf(u.kind))
        required == MissingRequired(u.kind, resolved)
    IN
    /\ u.pc = "resolving"
    /\ up' = [up EXCEPT ![w] =
                IF Len(required) > 0
                THEN [u EXCEPT !.pc = "aborted", !.resolved = resolved,
                               !.resp = MissingResp(required, u.columns_seen, resolved)]
                ELSE [u EXCEPT !.pc = IF Len(u.file.rows) = 0 THEN "committing" ELSE "rows",
                               !.resolved = resolved]]
    /\ UNCHANGED <<store, sess, co, crud, conv, cv>>

\* how the attempt of one row ends: "ok", or the step that raised
RowOutcome(b, s, kind) ==
    IF b.exc # "" THEN "build"
    ELSE IF MergeRaises(s) THEN "merge"
    ELSE IF FlushViolates(kind, b.obj) THEN "flush"
    ELSE "ok"

RowError(out, b) ==
    CASE out = "build" -> b.exc
      [] out = "merge" -> "PendingRollbackError"
      [] OTHER         -> "DataError"

\* the session after the attempt of one row
RowSession(out, b, s, kind) ==
    CASE out = "build" -> s
      [] out = "merge" -> [s EXCEPT !.ops = @ \o <<"merge">>]
      [] OTHER         -> Flushed(Merged(s), kind, b.obj)

\* faulty variant: every error is recorded
Sampled_Uncapped(row_errors, entry) == Append(row_errors, entry)

\* if len(row_errors) < ROW_ERROR_LIMIT: row_errors.append(...)
Sampled(row_errors, entry) ==
    IF Len(row_errors) < ROW_ERROR_LIMIT THEN Append(row_errors, entry) ELSE row_errors

\* one iteration of the row loop: build, merge, flush, count; the exception of
\* any of them is caught here
ProcessRow(w) ==
    LET u == up[w]
        r == u.file.rows[u.idx + 1]
        b == BuildRow(u.kind, r, u.columns_seen, u.resolved, u.req)
        out == RowOutcome(b, sess[w], u.kind)
    IN
    /\ u.pc = "rows"
    /\ u.idx < Len(u.file.rows)
    /\ sess' = [sess EXCEPT ![w] = RowSession(out, b, sess[w], u.kind)]
    /\ up' = [up EXCEPT ![w] =
                [u EXCEPT
                    !.idx = @ + 1,
                    !.ok = IF out = "ok" THEN @ + 1 ELSE @,
                    !.failed = IF out = "ok" THEN @ ELSE @ + 1,
                    !.row_errors = IF out # "ok"
                                   THEN Sampled(@, [row_index |-> u.idx, error |-> RowError(out, b)])
                                   ELSE @,
                    !.outcomes = Append(@, out),
                    !.pc = IF u.idx + 1 = Len(u.file.rows) THEN "committing" ELSE "rows"]]
    /\ UNCHANGED <<store, co, crud, conv, cv>>

\* the key of the row an upload is at
CurrentKey(w) ==
    LET u == up[w] IN BuildRow(u.kind, u.file.rows[u.idx + 1], u.columns_seen, u.resolved, u.req).obj.id

\* another session has flushed a row of this key and not committed it yet:
\* the INSERT or UPDATE of this session waits for that transaction to end
FlushWaits(w) ==
    \E v \in Workers \ {w} :
        /\ sess[v].state = "active"
        /\ up[v].kind = up[w].kind
        /\ \E r \in sess[v].tx : r.id = CurrentKey(w)

\* two sessions wait for each other; the store ends the wait of one of them
\* with an error (deadlock detected)
Deadlocked(w) ==
    /\ FlushWaits(w)
    /\ \E v \in Workers \ {w} : up[v].pc = "flushing" /\ FlushWaits(v)

\* db.merge(obj) of the row loop, when other sessions are open: the SELECT
\* by primary key finds the row or not, among the committed rows and the
\* rows of its own transaction.  A row that cannot be built, or a session
\* that cannot be used, ends the attempt as in ProcessRow.
MergeRow(w) ==
    LET u == up[w]
        b == BuildRow(u.kind, u.file.rows[u.idx + 1], u.columns_seen, u.resolved, u.req)
    IN
    /\ u.pc = "rows"
    /\ u.idx < Len(u.file.rows)
    /\ IF RowOutcome(b, sess[w], u.kind) \in {"build", "merge"}
       THEN ProcessRow(w)
       ELSE /\ sess' = [sess EXCEPT ![w] = Merged(@)]
            /\ up' = [up EXCEPT ![w] =
                        [u EXCEPT !.pc = "flushing",
                                  !.found = \E row \in store[u.kind] \cup sess[w].tx : row.id = b.obj.id]]
            /\ UNCHANGED <<store, co, crud, conv, cv>>

\* how db.flush() ends: the statement is an INSERT when the merge found no
\* row and an UPDATE when it found one; an INSERT of a key that was committed
\* since the merge violates the primary key
FlushOutcome(w, b) ==
    IF FlushViolates(up[w].kind, b.obj) THEN "flush"
    ELSE IF FlushWaits(w) THEN "deadlock"
    ELSE IF ~up[w].found /\ \E row \in store[up[w].kind] : row.id = b.obj.id THEN "unique"
    ELSE "ok"

FlushError(out, b) ==
    CASE out = "unique"   -> "IntegrityError"
      [] out = "deadlock" -> "OperationalError"
      [] OTHER            -> RowError(out, b)

\* db.flush() of the row loop, when other sessions are open, and the counting
\* of the row.  The statement waits while another transaction holds the row.
FlushRow(w) ==
    LET u == up[w]
        b == BuildRow(u.kind, u.file.rows[u.idx + 1], u.columns_seen, u.resolved, u.req)
        out == FlushOutcome(w, b)
    IN
    /\ u.pc = "flushing"
    /\ FlushViolates(u.kind, b.obj) \/ ~FlushWaits(w) \/ Deadlocked(w)
    /\ sess' = [sess EXCEPT ![w] =
                  IF out \in {"ok", "flush"} THEN Flushed(@, u.kind, b.obj)
                  ELSE [@ EXCEPT !.state = "deactive", !.tx = {}, !.ops = @ \o <<"flush">>]]
    /\ up' = [up EXCEPT ![w] =
                [u EXCEPT
                    !.idx = @ + 1,
                    !.ok = IF out = "ok" THEN @ + 1 ELSE @,
                    !.failed = IF out = "ok" THEN @ ELSE @ + 1,
                    !.row_errors = IF out # "ok"
                                   THEN Sampled(@, [row_index |-> u.idx, error |-> FlushError(out, b)])
                                   ELSE @,
                    !.outcomes = Append(@, out),
                    !.pc = IF u.idx + 1 = Len(u.file.rows) THEN "committing" ELSE "rows"]]
    /\ UNCHANGED <<store, co, crud, conv, cv>>

OkResp(u) ==
    [status |-> 200, ok |-> TRUE, rows_ingested |-> u.ok, rows_failed |-> u.failed,
     columns_seen |-> u.columns_seen, resolved_map |-> u.resolved,
     sample_errors |-> u.row_errors]

\* faulty variant: the writes of the transaction reach the table even when the commit raises
StoreAfterCommit_NoRollback(rows, s, dbOk) == Upserted(rows, s.tx)

\* the table after db.commit(): the writes of the transaction when the commit
\* succeeds, untouched when it raises
StoreAfterCommit(rows, s, dbOk) ==
    IF CommitOk(s, dbOk) THEN Upserted(rows, s.tx) ELSE rows

\* db.commit() after the loop; on its failure db.rollback() and the error is
\* raised again.  dbOk: the store accepts the commit.
Commit(w, dbOk) ==
    LET u == up[w] IN
    /\ u.pc = "committing"
    /\ store' = [store EXCEPT ![u.kind] = StoreAfterCommit(@, sess[w], dbOk)]
    /\ sess' = [sess EXCEPT ![w] = IF CommitOk(sess[w], dbOk) THEN Committed(@) ELSE RolledBack(@)]
    /\ up' = [up EXCEPT ![w] =
                IF CommitOk(sess[w], dbOk)
                THEN [u EXCEPT !.pc = "done", !.resp = OkResp(u), !.dbOk = dbOk,
                               !.after = {v \in Workers \ {w} : up[v].pc = "done"}]
                ELSE [u EXCEPT !.pc = "rolled_back", !.resp = [status |-> 500], !.dbOk = dbOk]]
    /\ UNCHANGED <<co, crud, conv, cv>>

(***************************************************************************)
(* create_resource / create_project                                        *)
(***************************************************************************)
\* faulty variant: the conversation of a row is not compared
InScope_AnyConversation(row, req) ==
    (req.x_user_id # "" \/ req.user # "") =>
        row.user_id = (IF req.x_user_id # "" THEN req.x_user_id ELSE req.user)

\* _filter_by_conversation_and_user on a query already filtered by identifier
InScope(row, req) ==
    /\ row.conversation_id = req.conversation_id
    /\ (req.x_user_id # "" \/ req.user # "") =>
            row.user_id = (IF req.x_user_id # "" THEN req.x_user_id ELSE req.user)

\* the row a create builds from its body; fields the body leaves out are None
NewRow(kind, body, req) ==
    IF kind = "resource"
    THEN [id                    |-> Strip(body.id),
          name                  |-> Strip(body.name),
          role                  |-> Strip(body.role),
          skills                |-> _split_list(StrCell(body.skills)),
          proficiency_level     |-> _enum_or_none(Proficiency, NoneCell),
          capacity_hrs_per_week |-> Absent,
          current_commitments   |-> Absent,
          availability_date     |-> _to_date(NoneCell, FALSE),
          location_timezone     |-> Absent,
          employment_type       |-> _enum_or_none(EmploymentType, NoneCell),
          cost_per_hour_inr     |-> Absent,
          conversation_id       |-> req.conversation_id,
          user_id               |-> UserIdOf(req)]
    ELSE [id              |-> Strip(body.id),
          name            |-> Strip(body.name),
          summary         |-> Absent,
          required_skills |-> _split_list(NoneCell),
          staffing_mix    |-> Absent,
          start_date      |-> _to_date(NoneCell, FALSE),
          end_date        |-> _to_date(NoneCell, FALSE),
          milestones      |-> Absent,
          required_roles  |-> Absent,
          priority        |-> _enum_or_none(Priority, NoneCell),
          budget_inr      |-> Absent,
          compliance      |-> Absent,
          conversation_id |-> req.conversation_id,
          user_id         |-> UserIdOf(req)]

\* 409 when a row of the body's identifier is in the request's scope; else the
\* row is added and committed, and the commit raises (rollback, 500) when the
\* primary key is taken
Create(kind, body, req) ==
    LET existing == {row \in store[kind] : row.id = body.id /\ InScope(row, req)}
        obj == NewRow(kind, body, req)
    IN
    /\ store' = IF existing # {} THEN store
                ELSE IF \E row \in store[kind] : row.id = obj.id THEN store
                ELSE [store EXCEPT ![kind] = @ \cup {obj}]
    /\ UNCHANGED <<up, sess, co, crud, conv, cv>>

(***************************************************************************)
(* CRUD and dataset requests, step by step                                 *)
(*                                                                         *)
(* A handler that writes runs in two steps, its query and its commit, and  *)
(* other requests may be served in between.  A statement on a row another  *)
(* session has written and not yet committed waits for that session.       *)
(***************************************************************************)
CrudRequests == Requests \cup {[conversation_id |-> "c1", user |-> "bob", x_user_id |-> ""]}

\* ResourceCreate / ProjectCreate bodies: the identifier bare, and with a blank
CrudBodies == {[id |-> "R1", name |-> "Zed", role |-> "QA", skills |-> "Go"],
               [id |-> " R1", name |-> "Zed", role |-> "QA", skills |-> "Go"]}

\* a field of the body that the request leaves out (null is NoneCell)
LeftOut == [t |-> "unset", s |-> ""]

\* ResourceUpdate / ProjectUpdate bodies: a name left out is None
UpdateBodies == {[name |-> StrCell(" Yan "), skills |-> LeftOut], [name |-> NoneCell, skills |-> LeftOut]}

CrudIds == {"R1"}

DatasetLimitMin == 1

DatasetLimitMax == 1000

DatasetLimits == {0, 1, 2, DatasetLimitMax, DatasetLimitMax + 1}

NoBody == [id |-> "", name |-> "", role |-> "", skills |-> ""]

IdleCrud ==
    [pc |-> "idle", op |-> "", kind |-> "resource", id |-> "", body |-> NoBody,
     patch |-> [name |-> NoneCell, skills |-> LeftOut], req |-> CHOOSE q \in Requests : TRUE, limit |-> 0,
     seen |-> {}, obj |-> Absent, wrote |-> FALSE, resp |-> NoResp]

\* _resource_to_dict / _project_to_dict
_resource_to_dict(r) ==
    [id |-> r.id, name |-> r.name, role |-> r.role, skills |-> r.skills,
     proficiency |-> r.proficiency_level, capacity |-> r.capacity_hrs_per_week,
     commitments |-> r.current_commitments, availability_date |-> r.availability_date,
     timezone |-> r.location_timezone, type |-> r.employment_type,
     cost_hour |-> r.cost_per_hour_inr]

_project_to_dict(p) ==
    [id |-> p.id, name |-> p.name, problemStatement |-> p.summary,
     startDate |-> p.start_date, endDate |-> p.end_date, milestones |-> p.milestones,
     priority |-> p.priority, budget |-> p.budget_inr, requiredSkills |-> p.required_roles,
     compliance |-> p.compliance, geoEligibility |-> Absent]

ToDict(kind, row) == IF kind = "resource" THEN _resource_to_dict(row) ELSE _project_to_dict(row)

\* the fields ResourceOut / ProjectOut declare without a default
OutRequired(kind) ==
    IF kind = "resource" THEN {"resource_id", "name", "role", "skills"} ELSE {"project_id", "name"}

\* the returned dict is validated against the response_model of the route
Serialized(kind, row) ==
    IF OutRequired(kind) \subseteq DOMAIN ToDict(kind, row)
    THEN [status |-> 200, body |-> ToDict(kind, row)]
    ELSE [status |-> 500, error |-> "ResponseValidationError"]

\* the rows q.first() chooses from: the identifier, then the scope of the request
Matching(rows, id, req) == {row \in rows : row.id = id /\ InScope(row, req)}

\* another session has flushed a row of this key and not committed it yet
RowLocked(w, kind, id) ==
    \E v \in Workers \ {w} :
        /\ sess[v].state = "active"
        /\ up[v].kind = kind
        /\ \E r \in sess[v].tx : r.id = id

\* history: the rows that hold a key when a request queries the table
SameKey(rows, key) == {row \in rows : row.id = key}

CrudBegin(w, c) ==
    /\ crud[w].pc = "idle"
    /\ up[w].pc = "idle"
    /\ crud' = [crud EXCEPT ![w] = c]

\* create_resource / create_project up to db.add: the existence check, 409
CreateCheck(w, kind, body, req) ==
    LET c == [IdleCrud EXCEPT !.op = "create", !.kind = kind, !.id = body.id, !.body = body,
                              !.req = req, !.seen = SameKey(store[kind], Strip(body.id))]
    IN
    /\ CrudBegin(w, IF Matching(store[kind], body.id, req) # {}
                    THEN [c EXCEPT !.pc = "done", !.resp = [status |-> 409]]
                    ELSE [c EXCEPT !.pc = "commit", !.obj = NewRow(kind, body, req)])
    /\ UNCHANGED <<store, up, sess, co, conv, cv>>

\* get / update / delete up to q.first(): 404, or the row found
Lookup(w, op, kind, id, patch, req) ==
    LET c     == [IdleCrud EXCEPT !.op = op, !.kind = kind, !.id = id, !.patch = patch,
                                  !.req = req, !.seen = SameKey(store[kind], id)]
        found == Matching(store[kind], id, req)
    IN
    /\ CrudBegin(w, IF found = {}
                    THEN [c EXCEPT !.pc = "done", !.resp = [status |-> 404]]
                    ELSE IF op = "get"
                    THEN [c EXCEPT !.pc = "done", !.resp = Serialized(kind, CHOOSE row \in found : TRUE)]
                    ELSE [c EXCEPT !.pc = "commit", !.obj = CHOOSE row \in found : TRUE])
    /\ UNCHANGED <<store, up, sess, co, conv, cv>>

\* the validator of skills / required_skills: it runs on a value the body
\* gives, null included, and not on a field left out
_norm_skills(v) ==
    IF v.t = "unset" THEN [t |-> "none", v |-> <<>>] ELSE [t |-> "list", v |-> _split_list(v)]

\* the partial update of update_resource / update_project
Patched(row, patch) ==
    LET named  == IF patch.name.t = "none" THEN row ELSE [row EXCEPT !.name = Strip(PyStr(patch.name))]
        skills == _norm_skills(patch.skills)
    IN  IF skills.t = "none" THEN named
        ELSE IF "skills" \in DOMAIN row THEN [named EXCEPT !.skills = skills.v]
        ELSE [named EXCEPT !.required_skills = skills.v]

\* the table after the commit of a create, an update or a delete; the
\* statement of an INSERT on a taken key or of an UPDATE on a vanished row
\* fails and the table is left as it was
CrudCommitted(rows, c) ==
    CASE c.op = "create" -> IF \E row \in rows : row.id = c.obj.id THEN rows ELSE rows \cup {c.obj}
      [] c.op = "update" -> {IF row.id = c.obj.id THEN Patched(row, c.patch) ELSE row : row \in rows}
      [] OTHER           -> {row \in rows : row.id # c.obj.id}

CrudCommitFails(rows, c) ==
    CASE c.op = "create" -> \E row \in rows : row.id = c.obj.id
      [] c.op = "update" -> ~\E row \in rows : row.id = c.obj.id
      [] OTHER           -> FALSE

\* db.commit() of a create, an update or a delete, db.rollback() when it
\* raises, db.refresh and the response
CrudCommit(w) ==
    LET c    == crud[w]
        rows == store[c.kind]
        after == CrudCommitted(rows, c)
    IN
    /\ c.pc = "commit"
    /\ ~RowLocked(w, c.kind, c.obj.id)
    /\ store' = [store EXCEPT ![c.kind] = after]
    /\ crud' = [crud EXCEPT ![w] =
                  [c EXCEPT !.pc = "done",
                            !.wrote = (after # rows),
                            !.resp = IF CrudCommitFails(rows, c) THEN [status |-> 500, error |-> "commit"]
                                     ELSE IF c.op = "delete" THEN [status |-> 200, ok |-> TRUE]
                                     ELSE Serialized(c.kind, CHOOSE row \in after : row.id = c.obj.id)]]
    /\ UNCHANGED <<up, sess, co, conv, cv>>

\* the order of the characters identifiers are made of
CharOrder == " 0123456789ABCDEFGHIJKLMNOPQRSTUVWXYZ_abcdefghijklmnopqrstuvwxyz"

RECURSIVE StrLess(_, _)
\* ORDER BY on an identifier: character by character
StrLess(a, b) ==
    IF Len(b) = 0 THEN FALSE
    ELSE IF Len(a) = 0 THEN TRUE
    ELSE IF Ch(a, 1) = Ch(b, 1) THEN StrLess(SubSeq(a, 2, Len(a)), SubSeq(b, 2, Len(b)))
    ELSE \E i, j \in 1..Len(CharOrder) : i < j /\ Ch(CharOrder, i) = Ch(a, 1) /\ Ch(CharOrder, j) = Ch(b, 1)

\* the rows of a set ordered by identifier
RECURSIVE OrderedById(_)
OrderedById(rows) ==
    IF rows = {} THEN <<>>
    ELSE LET first == CHOOSE r \in rows : \A o \in rows \ {r} : StrLess(r.id, o.id)
         IN  <<first>> \o OrderedById(rows \ {first})

\* faulty variant: one row more than the limit
Limited_OffByOne(seq, limit) == SubSeq(seq, 1, IF Len(seq) < limit + 1 THEN Len(seq) ELSE limit + 1)

\* .limit(limit)
Limited(seq, limit) == SubSeq(seq, 1, IF Len(seq) < limit THEN Len(seq) ELSE limit)

DatasetRows(rows, req, limit) ==
    Limited(OrderedById({row \in rows : InScope(row, req)}), limit)

\* dataset: limit is validated by the route (ge=1, le=1000)
Dataset(w, req, limit) ==
    LET c == [IdleCrud EXCEPT !.op = "dataset", !.req = req, !.limit = limit, !.pc = "done"]
        res  == DatasetRows(store["resource"], req, limit)
        proj == DatasetRows(store["project"], req, limit)
    IN
    /\ CrudBegin(w, IF limit < DatasetLimitMin \/ limit > DatasetLimitMax
                    THEN [c EXCEPT !.resp = [status |-> 422]]
                    ELSE [c EXCEPT !.resp =
                            [status |-> 200,
                             resources |-> [i \in 1..Len(res) |-> _resource_to_dict(res[i])],
                             projects  |-> [i \in 1..Len(proj) |->
                                               [project_id |-> proj[i].id, name |-> proj[i].name,
                                                summary |-> proj[i].summary,
                                                required_skills |-> proj[i].required_skills,
                                                staffing_mix |-> proj[i].staffing_mix,
                                                start_date |-> proj[i].start_date,
                                                end_date |-> proj[i].end_date,
                                                milestones |-> proj[i].milestones,
                                                required_roles |-> proj[i].required_roles,
                                                priority |-> proj[i].priority,
                                                budget_inr |-> proj[i].budget_inr,
                                                compliance |-> proj[i].compliance]]]])
    /\ UNCHANGED <<store, up, sess, co, conv, cv>>

\* the response is sent
CrudFinish(w) ==
    /\ crud[w].pc = "done"
    /\ crud' = [crud EXCEPT ![w] = IdleCrud]
    /\ UNCHANGED <<store, up, sess, co, conv, cv>>

(***************************************************************************)
(* Conversation store: one JSONL file per (user, conversation)             *)
(*                                                                         *)
(* A file is a sequence of lines.  A line in the course of being written   *)
(* is torn: a reader finds part of its bytes, cut between two characters   *)
(* or inside the bytes of one character.                                   *)
(***************************************************************************)
DEFAULT_USER == "default"

UserChars == "0123456789ABCDEFGHIJKLMNOPQRSTUVWXYZabcdefghijklmnopqrstuvwxyz_-"

HexChars == "0123456789abcdefABCDEF"

AllIn(s, chars) == \A i \in 1..Len(s) : \E j \in 1..Len(chars) : Ch(chars, j) = Ch(s, i)

USER_RE(s) == Len(s) >= 1 /\ Len(s) <= 64 /\ AllIn(s, UserChars)

ID_RE(s) == Len(s) = 32 /\ AllIn(s, HexChars)

_resolve_user(user_q, x_user_id) ==
    IF x_user_id # "" THEN x_user_id ELSE IF user_q # "" THEN user_q ELSE DEFAULT_USER

\* _validate_user on the user a request resolves to: 422, or the trimmed name
_validate_user(rq) ==
    LET uid == Strip(_resolve_user(rq.user, rq.x_user_id)) IN
    IF USER_RE(uid) THEN [status |-> 200, uid |-> uid] ELSE [status |-> 422, uid |-> ""]

\* _validate_user, then _conv_path: 422, or the path of the file
PathOf(rq, cid) ==
    LET u == _validate_user(rq) IN
    IF u.status # 200 \/ ~ID_RE(cid) THEN [status |-> 422, path |-> <<"", "">>]
    ELSE [status |-> 200, path |-> <<u.uid, Lower(cid)>>]

MaxAppends == 2

\* what uuid4().hex yields
UuidPool == {"0123456789abcdef0123456789abcdef"}

ConvRequests == {[user |-> "", x_user_id |-> ""],
                 [user |-> "bob", x_user_id |-> "alice "],
                 [user |-> "a b", x_user_id |-> ""]}

CidsIn == UuidPool \cup {"0123456789ABCDEF0123456789abcdef", "c1"}

\* the texts of the messages are kept in ASCII: "~" stands for a character that
\* takes more than one byte in UTF-8 (an accented letter, a currency sign)
WideChar == "~"

Contents == {"", "  ", "hi", " ~5 "}

Paths == {"default", "alice"} \X UuidPool

Questions == {"", "hi "}

\* the paths and the trimmed texts of the requests, computed once
UserTable == [rq \in ConvRequests |-> _validate_user(rq)]

PathTable == [rq \in ConvRequests |-> [cid \in CidsIn |-> PathOf(rq, cid)]]

Stripped == [s \in Contents \cup Questions |-> Strip(s)]

NoFile == [exists |-> FALSE, lines |-> <<>>, mtime |-> 0]

\* uploads are the files of the uploads directories, each under the directory
\* of a user and a conversation, with a number for its content; sent counts
\* the files received and saved is history: the contents that were written.
\* order, deleted, tickets are history: the order in which appends took the
\* lock of a file, the files a delete removed, the appends numbered
NoConv ==
    [files |-> [p \in Paths |-> NoFile], locks |-> {}, clock |-> 0, minted |-> {},
     tickets |-> 0, deleted |-> {}, order |-> [p \in Paths |-> <<>>],
     uploads |-> {}, sent |-> 0, saved |-> {}]

NoRec == [role |-> "", content |-> "", ts |-> 0]

\* the locals of upload_files: updir, files and the position in them, target,
\* uploaded; base numbers the contents of the request's files
NoUpload == [dir |-> <<"", "">>, names |-> <<>>, k |-> 0, target |-> "", base |-> 0, uploaded |-> <<>>]

IdleConv ==
    [pc |-> "idle", op |-> "", path |-> <<"", "">>, content |-> "", rec |-> NoRec, tag |-> 0,
     limit |-> 0, offset |-> 0, ask |-> "", first |-> 0, hook |-> "", answer |-> "",
     late |-> FALSE, snapshot |-> <<>>, resp |-> NoResp, upl |-> NoUpload]

ConvBegin(w, c) ==
    /\ cv[w].pc = "idle"
    /\ up[w].pc = "idle"
    /\ crud[w].pc = "idle"
    /\ cv' = [cv EXCEPT ![w] = c]

\* a request on a path: late records that a delete of the path had succeeded
\* when the request began
OnPath(c, pth) == [c EXCEPT !.path = pth, !.late = (pth \in conv.deleted)]

\* create_conversation: a fresh identifier, the file opened for appending
CreateConversation(w, rq) ==
    LET uid == UserTable[rq].uid
        c   == [IdleConv EXCEPT !.op = "create_conversation", !.pc = "done"]
    IN
    \/ /\ UserTable[rq].status # 200
       /\ ConvBegin(w, [c EXCEPT !.resp = [status |-> 422]])
       /\ UNCHANGED <<store, up, sess, co, crud, conv>>
    \/ /\ UserTable[rq].status = 200
       /\ \E cid \in UuidPool \ conv.minted :
              /\ ConvBegin(w, [c EXCEPT !.path = <<uid, cid>>, !.resp = [status |-> 200, id |-> cid]])
              /\ conv' = [conv EXCEPT !.minted = @ \cup {cid},
                                      !.files[<<uid, cid>>] = [@ EXCEPT !.exists = TRUE, !.mtime = conv.clock]]
       /\ UNCHANGED <<store, up, sess, co, crud>>

\* the content is tested as it came
NoContent_Untrimmed(content) == content = ""

\* content = content.strip(); if not content
NoContent(content) == Stripped[content] = ""

\* the checks of append_message before the lock: the body of the route
\* (min_length=1), the path, the file, the trimmed content; then the record
AppendChecked(c, rq, cid, role, content) ==
    LET pth == PathTable[rq][cid] IN
    IF Len(content) < 1 THEN [c EXCEPT !.pc = "done", !.resp = [status |-> 422]]
    ELSE IF pth.status # 200 THEN [c EXCEPT !.pc = "done", !.resp = [status |-> 422]]
    ELSE IF ~conv.files[pth.path].exists
    THEN [OnPath(c, pth.path) EXCEPT !.pc = "done", !.resp = [status |-> 404]]
    ELSE IF NoContent(content)
    THEN [OnPath(c, pth.path) EXCEPT !.pc = "done", !.resp = [status |-> 422]]
    ELSE [OnPath(c, pth.path) EXCEPT
             !.pc = "wait", !.tag = conv.tickets + 1,
             !.rec = [role |-> role, content |-> Stripped[content], ts |-> conv.clock]]

\* a record was built: the time it read is past
Ticked(c) ==
    IF c.pc = "wait" THEN [conv EXCEPT !.tickets = @ + 1, !.clock = @ + 1] ELSE conv

AppendCheck(w, rq, cid, content) ==
    LET c == AppendChecked([IdleConv EXCEPT !.op = "append_message", !.content = content],
                           rq, cid, "user", content)
    IN
    /\ conv.tickets < MaxAppends
    /\ ConvBegin(w, c)
    /\ conv' = Ticked(c)
    /\ UNCHANGED <<store, up, sess, co, crud>>

\* a lock that excludes nobody
LockFree_NoExclusion(pth) == TRUE

\* FileLock: one holder at a time
LockFree(pth) == pth \notin conv.locks

\* with lock: the lock of the file is taken
AppendLock(w) ==
    LET c == cv[w] IN
    /\ c.pc = "wait"
    /\ LockFree(c.path)
    /\ conv' = [conv EXCEPT !.locks = @ \cup {c.path}, !.order[c.path] = Append(@, c.tag)]
    /\ cv' = [cv EXCEPT ![w].pc = "locked"]
    /\ UNCHANGED <<store, up, sess, co, crud>>

\* a character of more than one byte in UTF-8
HasWideChar(s) == \E i \in 1..Len(s) : Ch(s, i) = WideChar

\* a file opened for writing instead: what it held is lost
Appended_Truncating(lines, line) == <<line>>

\* path.open("a"): the file is created when it is missing, the line goes to its end
Appended(lines, line) == Append(lines, line)

\* f.write: the first bytes of the line are in the file
AppendWriteBegin(w, tear) ==
    LET c == cv[w] IN
    /\ c.pc = "locked"
    /\ tear = "in_char" => HasWideChar(c.rec.content)
    /\ conv' = [conv EXCEPT !.files[c.path] =
                   [exists |-> TRUE,
                    lines  |-> Appended(@.lines, [rec |-> c.rec, tag |-> c.tag, state |-> tear]),
                    mtime  |-> conv.clock]]
    /\ cv' = [cv EXCEPT ![w].pc = "writing"]
    /\ UNCHANGED <<store, up, sess, co, crud>>

\* a write that stops after the first bytes of the line
Completed_LineLost(lines, c) == lines

\* the rest of the bytes go to the end of the file: they complete the line when
\* nothing was written after its first bytes
Completed(lines, c) ==
    IF Len(lines) > 0 /\ lines[Len(lines)].tag = c.tag
    THEN [lines EXCEPT ![Len(lines)].state = "whole"]
    ELSE Append(lines, [rec |-> c.rec, tag |-> c.tag, state |-> "between"])

\* the file is closed, the lock released; append_message returns the record
AppendWriteEnd(w) ==
    LET c == cv[w] IN
    /\ c.pc = "writing"
    /\ conv' = [conv EXCEPT !.files[c.path].lines = Completed(@, c),
                            !.files[c.path].mtime = conv.clock,
                            !.locks = @ \ {c.path}]
    /\ cv' = [cv EXCEPT ![w] =
                 IF c.ask = "user" THEN [c EXCEPT !.pc = "webhook"]
                 ELSE IF c.ask = "assistant"
                 THEN [c EXCEPT !.pc = "done", !.resp = [status |-> 200, answer |-> c.answer]]
                 ELSE [c EXCEPT !.pc = "done", !.resp = [status |-> 200, message |-> c.rec]]]
    /\ UNCHANGED <<store, up, sess, co, crud>>

\* decoding the file as UTF-8 fails on a line cut inside a character
Undecodable(lines) == \E i \in 1..Len(lines) : lines[i].state = "in_char"

\* read_all_valid_messages: the lines that parse
read_all_valid_messages(lines) ==
    LET ok == SelectSeq(lines, LAMBDA l : l.state = "whole")
    IN  [i \in 1..Len(ok) |-> ok[i].rec]

Max0(n) == IF n < 0 THEN 0 ELSE n

\* a window counted from the oldest message
MessageSlice_FromOldest(messages, limit, offset) ==
    SubSeq(messages, offset + 1,
           IF offset + limit < Len(messages) THEN offset + limit ELSE Len(messages))

\* the slice of get_messages
MessageSlice(messages, limit, offset) ==
    LET n     == Len(messages)
        start == Max0(n - (offset + limit))
        end   == Max0(n - offset)
    IN  IF start > end THEN <<>> ELSE SubSeq(messages, start + 1, end)

\* get_messages up to _ensure_exists; limit (ge=1) and offset (ge=0) are
\* validated by the route
GetMessagesCheck(w, rq, cid, limit, offset) ==
    LET pth == PathTable[rq][cid]
        c   == [IdleConv EXCEPT !.op = "get_messages", !.limit = limit, !.offset = offset]
    IN
    /\ ConvBegin(w, IF limit < 1 \/ offset < 0 \/ pth.status # 200
                    THEN [c EXCEPT !.pc = "done", !.resp = [status |-> 422]]
                    ELSE IF ~conv.files[pth.path].exists
                    THEN [OnPath(c, pth.path) EXCEPT !.pc = "done", !.resp = [status |-> 404]]
                    ELSE [OnPath(c, pth.path) EXCEPT !.pc = "read"])
    /\ UNCHANGED <<store, up, sess, co, crud, conv>>

\* the file is read (a missing file reads as empty) and sliced
GetMessagesRead(w) ==
    LET c     == cv[w]
        lines == conv.files[c.path].lines
    IN
    /\ c.pc = "read"
    /\ cv' = [cv EXCEPT ![w] =
                 [c EXCEPT !.pc = "done", !.snapshot = lines,
                           !.resp = IF Undecodable(lines)
                                    THEN [status |-> 500, error |-> "UnicodeDecodeError"]
                                    ELSE [status |-> 200,
                                          messages |-> MessageSlice(read_all_valid_messages(lines),
                                                                    c.limit, c.offset)]]]
    /\ UNCHANGED <<store, up, sess, co, crud, conv>>

\* summarize_conversation: the lines that parse are counted
Summary(pth) ==
    LET f == conv.files[pth] IN
    IF Undecodable(f.lines) THEN [status |-> 500, error |-> "UnicodeDecodeError"]
    ELSE [status |-> 200, id |-> pth[2], last_at |-> f.mtime,
          count |-> Len(SelectSeq(f.lines, LAMBDA l : l.state = "whole"))]

\* get_conversation
GetConversation(w, rq, cid) ==
    LET pth == PathTable[rq][cid]
        c   == [IdleConv EXCEPT !.op = "get_conversation", !.pc = "done"]
    IN
    /\ ConvBegin(w, IF pth.status # 200 THEN [c EXCEPT !.resp = [status |-> 422]]
                    ELSE IF ~conv.files[pth.path].exists
                    THEN [OnPath(c, pth.path) EXCEPT !.resp = [status |-> 404]]
                    ELSE [OnPath(c, pth.path) EXCEPT !.resp = Summary(pth.path)])
    /\ UNCHANGED <<store, up, sess, co, crud, conv>>

\* delete_conversation up to _ensure_exists
DeleteCheck(w, rq, cid) ==
    LET pth == PathTable[rq][cid]
        c   == [IdleConv EXCEPT !.op = "delete_conversation"]
    IN
    /\ ConvBegin(w, IF pth.status # 200 THEN [c EXCEPT !.pc = "done", !.resp = [status |-> 422]]
                    ELSE IF ~conv.files[pth.path].exists
                    THEN [OnPath(c, pth.path) EXCEPT !.pc = "done", !.resp = [status |-> 404]]
                    ELSE [OnPath(c, pth.path) EXCEPT !.pc = "unlink"])
    /\ UNCHANGED <<store, up, sess, co, crud, conv>>

\* with lock: path.unlink(), 404 when the file is gone
DeleteUnlink(w) ==
    LET c == cv[w] IN
    /\ c.pc = "unlink"
    /\ LockFree(c.path)
    /\ conv' = IF conv.files[c.path].exists
               THEN [conv EXCEPT !.files[c.path] = NoFile, !.deleted = @ \cup {c.path}]
               ELSE conv
    /\ cv' = [cv EXCEPT ![w] =
                 [c EXCEPT !.pc = "done",
                           !.resp = IF conv.files[c.path].exists THEN [status |-> 200, ok |-> TRUE]
                                    ELSE [status |-> 404]]]
    /\ UNCHANGED <<store, up, sess, co, crud>>

\* sorted(..., key=st_mtime, reverse=True)
RECURSIVE ByMtimeDesc(_)
ByMtimeDesc(ps) ==
    IF ps = {} THEN <<>>
    ELSE LET p == CHOOSE q \in ps : \A r \in ps : conv.files[r].mtime <= conv.files[q].mtime
         IN  <<p>> \o ByMtimeDesc(ps \ {p})

\* list_conversations: the summaries of the user's files, the latest first
ListConversations(w, rq, limit) ==
    LET uid   == UserTable[rq].uid
        files == ByMtimeDesc({p \in Paths : p[1] = uid /\ conv.files[p].exists})
        shown == SubSeq(files, 1, IF limit < Len(files) THEN limit ELSE Len(files))
        sums  == [i \in 1..Len(shown) |-> Summary(shown[i])]
        c     == [IdleConv EXCEPT !.op = "list_conversations", !.pc = "done", !.limit = limit]
    IN
    /\ ConvBegin(w, IF limit < 1 \/ UserTable[rq].status # 200 THEN [c EXCEPT !.resp = [status |-> 422]]
                    ELSE IF \E i \in 1..Len(sums) : sums[i].status # 200
                    THEN [c EXCEPT !.resp = [status |-> 500, error |-> "UnicodeDecodeError"]]
                    ELSE [c EXCEPT !.resp = [status |-> 200, conversations |-> sums]])
    /\ UNCHANGED <<store, up, sess, co, crud, conv>>

\* SAFE_NAME_RE = [^A-Za-z0-9._-]+
SafeChars == UserChars \o "."

IsSafe(c) == \E j \in 1..Len(SafeChars) : Ch(SafeChars, j) = c

\* SAFE_NAME_RE.sub("-", s): every run of other characters becomes one "-"
RECURSIVE SubUnsafe(_, _)
SubUnsafe(s, inRun) ==
    IF Len(s) = 0 THEN ""
    ELSE IF IsSafe(Ch(s, 1)) THEN Ch(s, 1) \o SubUnsafe(SubSeq(s, 2, Len(s)), FALSE)
    ELSE (IF inRun THEN "" ELSE "-") \o SubUnsafe(SubSeq(s, 2, Len(s)), TRUE)

\* _sanitize_name(uf.filename or "file")
_sanitize_name(name) ==
    LET n == Replace(Strip(IF name = "" THEN "file" ELSE name), " ", "_")
        r == SubUnsafe(n, FALSE)
    IN  IF r = "" THEN "file" ELSE r

\* os.path.splitext of a name without separators: the extension starts at the
\* last dot, unless only dots come before it
SplitExt(s) ==
    LET dots == {i \in 1..Len(s) : Ch(s, i) = "."}
        d    == IF dots = {} THEN 0 ELSE CHOOSE i \in dots : \A j \in dots : j <= i
    IN  IF d > 0 /\ \E i \in 1..(d - 1) : Ch(s, i) # "."
        THEN <<SubSeq(s, 1, d - 1), SubSeq(s, d, Len(s))>>
        ELSE <<s, "">>

\* str(i)
RECURSIVE Decimal(_)
Decimal(n) ==
    IF n < 10 THEN Ch("0123456789", n + 1)
    ELSE Decimal(n \div 10) \o Ch("0123456789", (n % 10) + 1)

\* the names received with the files of a request
NameLists == {<<"a b.txt">>, <<"a_b.txt", " a#!b.txt ">>, <<"..", "">>}

NameTable == [n \in UNION {Range(l) : l \in NameLists} |-> _sanitize_name(n)]

\* target.exists(): a stored file, or the directory itself and its parent
Exists(dir, name) ==
    name \in {".", ".."} \/ \E f \in conv.uploads : f.dir = dir /\ f.name = name

\* while target.exists(): target = updir / f"{base}_{i}{ext}"; i += 1
RECURSIVE Probe(_, _, _, _, _)
Probe(dir, base, ext, target, i) ==
    IF Exists(dir, target) THEN Probe(dir, base, ext, base \o "_" \o Decimal(i) \o ext, i + 1)
    ELSE target

MaxFiles == 2

\* upload_files: get_conversation, then the directory of the user and the
\* conversation, named by the user as the request gives it
UploadFiles(w, rq, cid, names) ==
    LET pth == PathTable[rq][cid]
        c   == [IdleConv EXCEPT !.op = "upload_files", !.pc = "done"]
        ok  == /\ pth.status = 200
               /\ conv.files[pth.path].exists
               /\ Summary(pth.path).status = 200
    IN
    /\ conv.sent + Len(names) <= MaxFiles
    /\ ConvBegin(w, IF pth.status # 200 THEN [c EXCEPT !.resp = [status |-> 422]]
                    ELSE IF ~conv.files[pth.path].exists
                    THEN [OnPath(c, pth.path) EXCEPT !.resp = [status |-> 404]]
                    ELSE IF Summary(pth.path).status # 200
                    THEN [OnPath(c, pth.path) EXCEPT !.resp = Summary(pth.path)]
                    ELSE [OnPath(c, pth.path) EXCEPT
                            !.pc = "naming",
                            !.upl = [NoUpload EXCEPT
                                        !.dir = <<_resolve_user(rq.user, rq.x_user_id), cid>>,
                                        !.names = names, !.k = 1, !.base = conv.sent]])
    /\ conv' = IF ok THEN [conv EXCEPT !.sent = @ + Len(names)] ELSE conv
    /\ UNCHANGED <<store, up, sess, co, crud>>

\* the name of one file: the sanitized name, or the first name with a numeric
\* suffix that does not exist; then the handler awaits the content
UploadName(w) ==
    LET c    == cv[w]
        safe == NameTable[c.upl.names[c.upl.k]]
        se   == SplitExt(safe)
    IN
    /\ c.pc = "naming"
    /\ cv' = [cv EXCEPT ![w] = [c EXCEPT !.pc = "saving",
                                         !.upl.target = Probe(c.upl.dir, se[1], se[2], safe, 1)]]
    /\ UNCHANGED <<store, up, sess, co, crud, conv>>

\* target.open("wb") and the write: the file is created, or truncated and
\* written over when it exists by now
UploadWrite(w) ==
    LET c    == cv[w]
        u    == c.upl
        file == [dir |-> u.dir, name |-> u.target, data |-> u.base + u.k]
        done == Append(u.uploaded, [filename |-> u.target, data |-> file.data])
    IN
    /\ c.pc = "saving"
    /\ conv' = [conv EXCEPT
                  !.uploads = {f \in @ : ~(f.dir = u.dir /\ f.name = u.target)} \cup {file},
                  !.saved = @ \cup {file.data}]
    /\ cv' = [cv EXCEPT ![w] =
                IF u.k = Len(u.names)
                THEN [c EXCEPT !.pc = "done", !.upl.uploaded = done,
                               !.resp = [status |-> 200, uploaded |-> done]]
                ELSE [c EXCEPT !.pc = "naming", !.upl.uploaded = done, !.upl.k = @ + 1]]
    /\ UNCHANGED <<store, up, sess, co, crud>>

\* ask: the question is appended as the user's message
AskQuestion(w, rq, cid, question) ==
    LET c == AppendChecked([IdleConv EXCEPT !.op = "ask", !.ask = "user", !.content = question],
                           rq, cid, "user", question)
    IN
    /\ conv.tickets + 1 < MaxAppends
    /\ ConvBegin(w, c)
    /\ conv' = Ticked(c)
    /\ UNCHANGED <<store, up, sess, co, crud>>

\* what the webhook does: no URL is configured; the call raises (no
\* connection, a timeout, an error status); a reply that is not JSON; a JSON
\* reply that does not parse, or parses to a string, an object or a list
WebhookOutcomes ==
    {"no_url", "timeout", "error_status", "text", "empty_text", "bad_json", "blank_string",
     "answer", "empty_answer", "nested", "choices", "list"}

\* a parsed JSON object or list, with its json.dumps where the code comes to it
JDict(kv, dump) == [t |-> "dict", kv |-> kv, dump |-> dump]

JList(items, dump) == [t |-> "list", kv |-> items, dump |-> dump]

Reply(outcome) ==
    CASE outcome = "no_url"       -> [how |-> "no_url"]
      [] outcome = "timeout"      -> [how |-> "raises", e |-> "timed out"]
      [] outcome = "error_status" -> [how |-> "raises", e |-> ""]
      [] outcome = "text"         -> [how |-> "text", text |-> " 42 "]
      [] outcome = "empty_text"   -> [how |-> "text", text |-> ""]
      [] outcome = "bad_json"     -> [how |-> "json", data |-> NoneCell]
      [] outcome = "blank_string" -> [how |-> "json", data |-> StrCell("  ")]
      [] outcome = "answer"       -> [how |-> "json", data |-> JDict("answer" :> StrCell(" 42 "), "")]
      [] outcome = "empty_answer" -> [how |-> "json", data |-> JDict("answer" :> StrCell(""), "{\"answer\": \"\"}")]
      [] outcome = "nested"       ->
             [how |-> "json",
              data |-> JDict("text" :> NumCell("7") @@ "message" :> JDict("content" :> StrCell("ok"), ""), "")]
      [] outcome = "choices"      ->
             [how |-> "json",
              data |-> JDict("choices" :> JList(<<JDict("message" :> JDict("content" :> StrCell("ok"), ""), "")>>, ""),
                             "")]
      [] outcome = "list"         -> [how |-> "json", data |-> JList(<<>>, "[]")]

\* s.strip() or None
StripOrNone(s) == IF Strip(s) = "" THEN NoneCell ELSE StrCell(Strip(s))

IsText(v) == v.t = "str" /\ Strip(v.s) # ""

\* the first key of keys, in order, for which found(key) is a string
FirstFound(keys, found(_)) ==
    IF \E i \in 1..Len(keys) : found(keys[i]).t = "str"
    THEN found(keys[CHOOSE i \in 1..Len(keys) :
                   /\ found(keys[i]).t = "str"
                   /\ \A j \in 1..(i - 1) : found(keys[j]).t # "str"])
    ELSE NoneCell

_coerce_answer_from_any(obj) ==
    LET Nested(v) ==
            FirstFound(<<"answer", "text", "content", "message">>,
                       LAMBDA kk : IF kk \in DOMAIN v.kv /\ IsText(v.kv[kk])
                                   THEN StrCell(Strip(v.kv[kk].s)) ELSE NoneCell)
        Direct(k) ==
            IF k \notin DOMAIN obj.kv THEN NoneCell
            ELSE IF IsText(obj.kv[k]) THEN StrCell(Strip(obj.kv[k].s))
            ELSE IF obj.kv[k].t = "dict" THEN Nested(obj.kv[k])
            ELSE NoneCell
        direct == FirstFound(<<"answer", "text", "content", "message", "result", "response">>, Direct)
        choices == IF "choices" \in DOMAIN obj.kv THEN obj.kv["choices"] ELSE NoneCell
        first   == IF choices.t = "list" /\ Len(choices.kv) > 0 THEN choices.kv[1] ELSE NoneCell
        msg     == IF first.t = "dict" /\ "message" \in DOMAIN first.kv THEN first.kv["message"] ELSE NoneCell
        cc      == IF msg.t = "dict" /\ "content" \in DOMAIN msg.kv THEN msg.kv["content"] ELSE NoneCell
    IN
    IF obj.t = "none" THEN NoneCell
    ELSE IF obj.t = "str" THEN StripOrNone(obj.s)
    ELSE IF obj.t # "dict" THEN StrCell(obj.dump)
    ELSE IF direct.t = "str" THEN direct
    ELSE IF IsText(cc) THEN StrCell(Strip(cc.s))
    ELSE StripOrNone(obj.dump)

\* answer_text before the final check: the echo without a webhook, the error
\* text when the call raises, else what the reply yields
WebhookAnswer(outcome, question) ==
    LET r == Reply(outcome) IN
    IF r.how = "no_url" THEN StrCell("You asked: " \o question)
    ELSE IF r.how = "raises" THEN StrCell("(n8n error: " \o r.e \o ")")
    ELSE IF r.how = "json" THEN _coerce_answer_from_any(r.data)
    ELSE StripOrNone(r.text)

\* no final check: what is not a string goes on as the empty text
AnswerText_Unchecked(outcome, question) ==
    IF WebhookAnswer(outcome, question).t = "str" THEN WebhookAnswer(outcome, question).s ELSE ""

\* the answer of ask: never None or blank
AnswerText(outcome, question) ==
    LET a == WebhookAnswer(outcome, question) IN
    IF a.t # "str" \/ Strip(a.s) = "" THEN "(No answer returned by AI.)" ELSE a.s

Answers == [o \in WebhookOutcomes |-> [q \in Questions |-> AnswerText(o, q)]]

StrippedAnswers == [o \in WebhookOutcomes |-> [q \in Questions |-> Strip(AnswerText(o, q))]]

\* ask after the first append: the webhook, then the answer goes through
\* append_message as the assistant's message
AskAnswer(w, outcome) ==
    LET c == [cv[w] EXCEPT !.hook = outcome, !.answer = Answers[outcome][cv[w].content]]
        d == IF ~conv.files[c.path].exists THEN [c EXCEPT !.pc = "done", !.resp = [status |-> 404]]
             ELSE IF StrippedAnswers[outcome][c.content] = ""
             THEN [c EXCEPT !.pc = "done", !.resp = [status |-> 422]]
             ELSE [c EXCEPT !.pc = "wait", !.ask = "assistant", !.first = c.tag,
                            !.tag = conv.tickets + 1,
                            !.rec = [role |-> "assistant", content |-> StrippedAnswers[outcome][c.content],
                                     ts |-> conv.clock]]
    IN
    /\ cv[w].pc = "webhook"
    /\ cv' = [cv EXCEPT ![w] = d]
    /\ conv' = Ticked(d)
    /\ UNCHANGED <<store, up, sess, co, crud>>

\* the response is sent
ConvFinish(w) ==
    /\ cv[w].pc = "done"
    /\ cv' = [cv EXCEPT ![w] = IdleConv]
    /\ UNCHANGED <<store, up, sess, co, crud, conv>>

(***************************************************************************)
(* Specification: requests served one at a time                            *)
(***************************************************************************)
CreateBodies == {[id |-> "P1", name |-> "Zed", role |-> "QA", skills |-> "Go"]}

Init ==
    /\ store = EmptyStore
    /\ up = [w \in Workers |-> IdleUpload]
    /\ sess = [w \in Workers |-> NoSession]
    /\ co = [fn |-> "", cell |-> NoneCell, out |-> Absent]
    /\ crud = [w \in Workers |-> IdleCrud]
    /\ conv = NoConv
    /\ cv = [w \in Workers |-> IdleConv]

Quiet == \A w \in Workers : up[w].pc = "idle"

Next ==
    \/ \E kind \in Kinds, file \in Files, req \in Requests : StartUpload("w1", kind, file, req)
    \/ Resend("w1")
    \/ Finish("w1")
    \/ ReadFile("w1")
    \/ ResolveColumns("w1")
    \/ ProcessRow("w1")
    \/ \E dbOk \in BOOLEAN : Commit("w1", dbOk)
    \/ \E body \in CreateBodies, req \in Requests : Quiet /\ Create("project", body, req)

Spec == Init /\ [][Next]_vars

(***************************************************************************)
(* Specification: CRUD, dataset and upload requests served concurrently    *)
(***************************************************************************)
\* the files uploaded while CRUD requests are served: one table of resources
CrudFiles ==
    {f \in Files : f.parses /\ Len(f.rows) = 1 /\ Len(f.headers) = 4 /\ f.rows[1][1] = StrCell("R1")}

\* the second worker serves creates and deletes of one client
RequestsOf(w) == IF w = "w1" THEN CrudRequests ELSE {CHOOSE q \in Requests : q.user = ""}

NextCrud ==
    \/ \E file \in CrudFiles, req \in Requests \ RequestsOf("w2") : StartUpload("w1", "resource", file, req)
    \/ Finish("w1")
    \/ ReadFile("w1")
    \/ ResolveColumns("w1")
    \/ ProcessRow("w1")
    \/ \E dbOk \in BOOLEAN : Commit("w1", dbOk)
    \/ \E w \in Workers, kind \in Kinds, body \in CrudBodies :
           \E req \in RequestsOf(w) : CreateCheck(w, kind, body, req)
    \/ \E op \in {"get", "update", "delete"}, kind \in Kinds, id \in CrudIds :
           \E w \in IF op = "delete" THEN Workers ELSE {"w1"} :
               \E req \in RequestsOf(w), patch \in IF op = "update" THEN UpdateBodies ELSE {IdleCrud.patch} :
                   Lookup(w, op, kind, id, patch, req)
    \/ \E w \in Workers : CrudCommit(w)
    \/ \E w \in Workers : CrudFinish(w)

SpecCrud == Init /\ [][NextCrud]_vars

(***************************************************************************)
(* Specification: creates and dataset fetches served one at a time         *)
(***************************************************************************)
DatasetBodies == {[id |-> "R1", name |-> "Zed", role |-> "QA", skills |-> "Go"],
                  [id |-> "R2", name |-> "Yan", role |-> "Dev", skills |-> "Go"]}

DatasetRequests == CrudRequests \cup {[conversation_id |-> "c2", user |-> "bob", x_user_id |-> ""]}

NextDataset ==
    \/ \E kind \in Kinds, body \in DatasetBodies, req \in DatasetRequests :
           Quiet /\ crud["w1"].pc = "idle" /\ Create(kind, body, req)
    \/ \E req \in DatasetRequests, limit \in DatasetLimits : Dataset("w1", req, limit)
    \/ CrudFinish("w1")

SpecDataset == Init /\ [][NextDataset]_vars

(***************************************************************************)
(* Specification: creates and updates served one at a time                 *)
(***************************************************************************)
\* bodies of an update: skills left out, null, or given
PatchBodies ==
    UpdateBodies \cup {[name |-> NoneCell, skills |-> NoneCell],
                       [name |-> StrCell("Yan"), skills |-> StrCell("Go; Rust")]}

NextUpdate ==
    \/ \E kind \in Kinds, body \in DatasetBodies, req \in Requests :
           Quiet /\ crud["w1"].pc = "idle" /\ Create(kind, body, req)
    \/ \E kind \in Kinds, id \in CrudIds, patch \in PatchBodies, req \in CrudRequests :
           Lookup("w1", "update", kind, id, patch, req)
    \/ CrudCommit("w1")
    \/ CrudFinish("w1")

SpecUpdate == Init /\ [][NextUpdate]_vars

(***************************************************************************)
(* Specification: two uploads of resources served by two processes         *)
(***************************************************************************)
\* tables of the sheet whose rows are all ingested
RaceFiles ==
    {f \in Files : f.parses /\ Len(f.headers) = 4 /\ Len(f.rows) > 0}

\* each process serves one client
RaceRequest(w) == CHOOSE q \in Requests : (q.conversation_id = "c1") = (w = "w1")

\* any number of uploads served one at a time, then at most two that overlap
NextRace ==
    \/ \E w \in Workers, file \in RaceFiles : StartUpload(w, "resource", file, RaceRequest(w))
    \/ \E w \in Workers : ReadFile(w)
    \/ \E w \in Workers : ResolveColumns(w)
    \/ \E w \in Workers : MergeRow(w)
    \/ \E w \in Workers : FlushRow(w)
    \/ \E w \in Workers, dbOk \in BOOLEAN : Commit(w, dbOk)
    \/ \E w \in Workers : (\A v \in Workers \ {w} : up[v].pc = "idle") /\ Finish(w)

SpecRace == Init /\ [][NextRace]_vars

(***************************************************************************)
(* Specification: one upload of a table longer than the error sample       *)
(***************************************************************************)
LongRows == 12

\* the sheets with a proficiency and with a capacity column, a row that is
\* ingested and a row that fails in each; one of the two is rare or absent
\* the rows of the table that are the same as its first row
LikeFirst(t) == {i \in DOMAIN t : t[i] = t[1]}

LongFiles ==
    UNION {{[parses |-> TRUE, headers |-> sh.headers, rows |-> t] :
                t \in {x \in [1..LongRows -> sh.rows] :
                          Cardinality(LikeFirst(x)) \in {1, 2, LongRows - 1, LongRows}}} :
           sh \in {x \in Sheets : Len(x.headers) = 5}}

NextRows ==
    \/ \E file \in LongFiles : StartUpload("w1", "resource", file, IdleUpload.req)
    \/ ReadFile("w1")
    \/ ResolveColumns("w1")
    \/ ProcessRow("w1")
    \/ \E dbOk \in BOOLEAN : Commit("w1", dbOk)

SpecRows == Init /\ [][NextRows]_vars

(***************************************************************************)
(* Specification: two clients of the conversation store                    *)
(***************************************************************************)
\* a request and the conversation it names: the default user, a header that
\* wins over the query, an identifier in upper case, a bad user, a bad identifier
ConvTargets ==
    {[rq |-> [user |-> "", x_user_id |-> ""], cid |-> "0123456789abcdef0123456789abcdef"],
     [rq |-> [user |-> "bob", x_user_id |-> "alice "], cid |-> "0123456789ABCDEF0123456789abcdef"],
     [rq |-> [user |-> "a b", x_user_id |-> ""], cid |-> "0123456789abcdef0123456789abcdef"],
     [rq |-> [user |-> "", x_user_id |-> ""], cid |-> "c1"]}

MessageLimits == {0, 1, 2}

MessageWindows == {[limit |-> 0, offset |-> 0], [limit |-> 1, offset |-> 0],
                   [limit |-> 2, offset |-> 0], [limit |-> 1, offset |-> 1],
                   [limit |-> 1, offset |-> 2]}

Tears == {"between", "in_char"}

NextConv ==
    \/ \E rq \in ConvRequests : CreateConversation("w1", rq)
    \/ \E w \in Workers, t \in ConvTargets, content \in Contents : AppendCheck(w, t.rq, t.cid, content)
    \/ \E w \in Workers : AppendLock(w)
    \/ \E w \in Workers, tear \in Tears : AppendWriteBegin(w, tear)
    \/ \E w \in Workers : AppendWriteEnd(w)
    \/ \E t \in ConvTargets, m \in MessageWindows : GetMessagesCheck("w1", t.rq, t.cid, m.limit, m.offset)
    \/ GetMessagesRead("w1")
    \/ \E t \in ConvTargets : GetConversation("w1", t.rq, t.cid)
    \/ \E t \in ConvTargets : DeleteCheck("w2", t.rq, t.cid)
    \/ DeleteUnlink("w2")
    \/ \E rq \in ConvRequests, limit \in MessageLimits : ListConversations("w1", rq, limit)
    \/ \E t \in ConvTargets : UploadFiles("w1", t.rq, t.cid, <<"a_b.txt", " a#!b.txt ">>)
    \/ UploadName("w1")
    \/ UploadWrite("w1")
    \/ \E t \in ConvTargets, question \in Questions : AskQuestion("w1", t.rq, t.cid, question)
    \/ \E outcome \in WebhookOutcomes : AskAnswer("w1", outcome)
    \/ \E w \in Workers : ConvFinish(w)

SpecConv == Init /\ [][NextConv]_vars

(***************************************************************************)
(* Specification: uploads of files to the directory of one conversation    *)
(***************************************************************************)
NextFiles ==
    \/ \E rq \in ConvRequests : CreateConversation("w1", rq)
    \/ \E w \in Workers, t \in ConvTargets, names \in NameLists : UploadFiles(w, t.rq, t.cid, names)
    \/ \E w \in Workers : UploadName(w)
    \/ \E w \in Workers : UploadWrite(w)
    \/ \E w \in Workers : ConvFinish(w)

SpecFiles == Init /\ [][NextFiles]_vars

(***************************************************************************)
(* Cell coercers on their own: every coercer applied to every raw cell     *)
(***************************************************************************)
CoerceCells ==
    {NoneCell, NaNCell, NumCell("0"), NumCell("3"), NumCell("40.0")} \cup
    {StrCell(x) : x \in {"", "   ", "soon", "n/a", "Expert", "expert", "FULLTIME", "full-time",
                         "high", "Python, Go; Rust", ";,;", "1,000", " 12.7 ", "-3.9", "inf",
                         "12abc", "2024-01-15", "15-01-2024", "01/02/2024", "2024/01/15",
                         "12/31/2024", "31/02/2024"}}

Coercers == {"_split_list", "_to_date", "_parse_int", "_parse_float",
             "_enum_or_none(Proficiency)", "_enum_or_none(EmploymentType)",
             "_enum_or_none(Priority)"}

\* the result of a coercer on a cell; a list is wrapped to keep t
Applied(fn, cell, infers) ==
    CASE fn = "_split_list"  -> [t |-> "list", s |-> "", items |-> _split_list(cell)]
      [] fn = "_to_date"     -> _to_date(cell, infers)
      [] fn = "_parse_int"   -> _parse_int(cell)
      [] fn = "_parse_float" -> _parse_float(cell)
      [] fn = "_enum_or_none(Proficiency)"    -> _enum_or_none(Proficiency, cell)
      [] fn = "_enum_or_none(EmploymentType)" -> _enum_or_none(EmploymentType, cell)
      [] OTHER                                -> _enum_or_none(Priority, cell)

Coerce(fn, cell, infers) ==
    /\ co' = [fn |-> fn, cell |-> cell, out |-> Applied(fn, cell, infers)]
    /\ UNCHANGED <<store, up, sess, crud, conv, cv>>

NextCoerce == \E fn \in Coercers, cell \in CoerceCells, infers \in BOOLEAN : Coerce(fn, cell, infers)

SpecCoerce == Init /\ [][NextCoerce]_vars

(***************************************************************************)
(* Properties of the upload pipeline                                       *)
(***************************************************************************)
\* the fields an entity requires, under the names its alias mapping gives them
RequiredFields(kind) ==
    IF kind = "resource" THEN {"resource_id", "name", "role", "skills"} ELSE {"id", "name"}

AliasesOf(kind, field) ==
    LET m == MappingOf(kind) IN m[CHOOSE i \in 1..Len(m) : m[i].key = field].aliases

\* a normalised header of the file is an alias of the field
HasAlias(kind, field, file) ==
    \E i \in 1..Len(file.headers), j \in 1..Len(AliasesOf(kind, field)) :
        _norm_header(file.headers[i]) = AliasesOf(kind, field)[j]

\* the name a response reports a required field under
ReportedName(kind, field) == IF kind = "project" /\ field = "id" THEN "project_id" ELSE field

NonEmptyTable(file) == file.parses /\ Len(file.rows) > 0 /\ Len(file.headers) > 0

AllRequiredPresent(u) ==
    NonEmptyTable(u.file) /\ \A f \in RequiredFields(u.kind) : HasAlias(u.kind, f, u.file)

SomeRequiredMissing(u) ==
    NonEmptyTable(u.file) /\ \E f \in RequiredFields(u.kind) : ~HasAlias(u.kind, f, u.file)

PastResolution == {"aborted", "rows", "committing", "done", "rolled_back"}

PastRows == {"committing", "done", "rolled_back"}

\* C1: an upload to either endpoint of a non-empty table whose normalised
\* headers hold an alias of every required field of the entity is not aborted
\* for missing required columns, resolves every required field, and attempts
\* every row: the rows counted ingested and failed add up to the table's rows.
C1_RequiredPresentAllRowsAttempted ==
    \A w \in Workers :
        LET u == up[w] IN
        AllRequiredPresent(u) =>
            /\ u.pc \in PastResolution => u.pc # "aborted"
            /\ u.pc \in PastRows => u.ok + u.failed = Len(u.file.rows)
            /\ u.pc = "done" => u.resp.rows_ingested + u.resp.rows_failed = Len(u.file.rows)

\* C2: an upload of a non-empty table that lacks an alias of some required
\* field is answered 422 "Missing required columns", no row is attempted, the
\* store is untouched, and required_missing lists exactly the required fields
\* that no header matches.
C2_MissingRequiredAborts ==
    \A w \in Workers :
        LET u == up[w] IN
        (SomeRequiredMissing(u) /\ u.pc \in PastResolution) =>
            /\ u.pc = "aborted"
            /\ u.resp.status = 422
            /\ u.resp.error = "Missing required columns"
            /\ u.idx = 0
            /\ sess[w].ops = <<>>
            /\ store = u.store0
            /\ Range(u.resp.required_missing) =
                   {ReportedName(u.kind, f) : f \in {g \in RequiredFields(u.kind) : ~HasAlias(u.kind, g, u.file)}}

\* the object row i of a finished loop was built into
BuiltObj(u, i) == BuildRow(u.kind, u.file.rows[i], u.columns_seen, u.resolved, u.req).obj

\* C3: a row whose build, merge or flush raises is counted failed and does not
\* abort the upload: when the store accepts the final commit the upload
\* completes, and every row that succeeded, before or after the failing one,
\* is in the store with the values of the last successful row of its key.
C3_RowFailureIsolated ==
    \A w \in Workers :
        LET u == up[w] IN
        (u.pc \in {"done", "rolled_back"} /\ u.failed > 0 /\ u.dbOk) =>
            /\ u.pc = "done"
            /\ u.resp.rows_failed = u.failed
            /\ \A i \in 1..Len(u.outcomes) :
                   u.outcomes[i] = "ok" =>
                       \E j \in i..Len(u.outcomes) :
                           /\ u.outcomes[j] = "ok"
                           /\ BuiltObj(u, j).id = BuiltObj(u, i).id
                           /\ BuiltObj(u, j) \in store[u.kind]

\* C4: when the final commit of an upload fails, the transaction is rolled
\* back after the commit attempt, none of the upload's rows is visible in the
\* store, and the request ends in a server error that reports no row counts.
C4_CommitFailureRollsBack ==
    \A w \in Workers :
        LET u == up[w] IN
        u.pc = "rolled_back" =>
            /\ store = u.store0
            /\ sess[w].tx = {}
            /\ Len(sess[w].ops) >= 2
            /\ SubSeq(sess[w].ops, Len(sess[w].ops) - 1, Len(sess[w].ops)) = <<"commit", "rollback">>
            /\ u.resp.status = 500
            /\ "rows_ingested" \notin DOMAIN u.resp

\* a commit the store refused, of an upload whose rows had been flushed over a
\* stored row of the same key
C4_Witness ==
    \E w \in Workers :
        LET u == up[w] IN
        /\ u.pc = "rolled_back"
        /\ ~u.dbOk
        /\ u.ok > 0
        /\ \E i \in 1..Len(u.outcomes) :
               /\ u.outcomes[i] = "ok"
               /\ \E row \in store[u.kind] : row.id = BuiltObj(u, i).id /\ row # BuiltObj(u, i)

IdField(kind) == IF kind = "resource" THEN "resource_id" ELSE "id"

IntField(kind) == IF kind = "resource" THEN "capacity_hrs_per_week" ELSE "budget"

\* the cell of row i under the first alias of a field the file has a header for
FieldCell(u, i, field) ==
    LET cols == NormColumns(u.file.headers)
        a    == FirstAlias(AliasesOf(u.kind, field), cols)
    IN  u.file.rows[i][CHOOSE k \in 1..Len(cols) : cols[k] = a]

RowKey(u, i) == Strip(PyStr(FieldCell(u, i, IdField(u.kind))))

\* the integer column of the row fits the store's column
RowFits(u, i) ==
    HasAlias(u.kind, IntField(u.kind), u.file) =>
        IntFits(_parse_int(FieldCell(u, i, IntField(u.kind))))

SameScope(row, req) ==
    row.conversation_id = req.conversation_id /\ row.user_id = UserIdOf(req)

\* C5: a row of an upload whose identifier equals that of a row stored in the
\* same (conversation, user) scope overwrites that row in place: the upload
\* completes, the row is counted ingested and not failed, and the store holds
\* exactly one row of that identifier, in the same scope, with the name of a
\* row of the file that has this identifier.
C5_SameKeyOverwritesInPlace ==
    \A w \in Workers :
        LET u == up[w] IN
        (u.pc \in Terminal /\ AllRequiredPresent(u) /\ u.dbOk) =>
            \A i \in 1..Len(u.file.rows) :
                (/\ RowFits(u, i)
                 /\ \E row \in u.store0[u.kind] : row.id = RowKey(u, i) /\ SameScope(row, u.req)) =>
                    /\ u.pc = "done"
                    /\ u.outcomes[i] = "ok"
                    /\ u.resp.rows_ingested >= 1
                    /\ Cardinality({row \in store[u.kind] : row.id = RowKey(u, i)}) = 1
                    /\ \A row \in store[u.kind] :
                           row.id = RowKey(u, i) =>
                               /\ SameScope(row, u.req)
                               /\ \E j \in i..Len(u.file.rows) :
                                      /\ RowKey(u, j) = RowKey(u, i)
                                      /\ row.name = Strip(PyStr(FieldCell(u, j, "name")))

\* every required field has a header and no row breaks a constraint of the store
ValidFile(u) == AllRequiredPresent(u) /\ \A i \in 1..Len(u.file.rows) : RowFits(u, i)

\* C6: the same valid file ingested twice in succession into the same scope:
\* both responses report rows_failed = 0 and the same rows_ingested, and the
\* store after the second upload is the store after the first.
C6_SecondUploadIdempotent ==
    \A w \in Workers :
        LET u == up[w] IN
        (u.rep.on /\ u.pc = "done" /\ ValidFile(u)) =>
            /\ u.rep.resp.rows_failed = 0
            /\ u.resp.rows_failed = 0
            /\ u.resp.rows_ingested = u.rep.resp.rows_ingested
            /\ store = u.store0

\* C7: no coercer raises, whatever raw cell it is given: a string, a number,
\* None or the NaN of a blank cell.
C7_CoercersNeverRaise == co.out.t # "raise"

ResponseFields == {"rows_ingested", "rows_failed", "columns_seen", "resolved_map", "sample_errors"}

\* C8: every success response of an upload, the one for an empty file included,
\* carries rows_ingested, rows_failed, columns_seen, resolved_map and
\* sample_errors, and sample_errors has at most 10 entries.
C8_SuccessResponseComplete ==
    \A w \in Workers :
        LET u == up[w] IN
        u.resp.status = 200 =>
            /\ ResponseFields \subseteq DOMAIN u.resp
            /\ Len(u.resp.sample_errors) <= 10

\* C9: an upload whose parsed table is empty (no qualifying sheet, or no row)
\* is answered with success, rows_ingested = 0 and rows_failed = 0, and the
\* store is left alone: no merge, flush, commit or rollback is issued.
C9_EmptyTableShortCircuits ==
    \A w \in Workers :
        LET u == up[w] IN
        (u.file.parses /\ Len(u.file.rows) = 0 /\ u.pc \notin {"idle", "reading"}) =>
            /\ u.pc = "empty"
            /\ u.resp.status = 200
            /\ u.resp.ok
            /\ u.resp.rows_ingested = 0
            /\ u.resp.rows_failed = 0
            /\ sess[w].ops = <<>>
            /\ sess[w].state = "closed"
            /\ store = u.store0

\* a table of headers without rows, answered while the store holds rows
C9_Witness ==
    \E w \in Workers :
        LET u == up[w] IN
        /\ u.pc = "empty"
        /\ Len(u.file.headers) > 0
        /\ Len(u.file.rows) = 0
        /\ store[u.kind] # {}

\* the steps of an upload the state machine names, and the return to idle of
\* a worker whose response is sent
ClaimedStates == {"idle", "reading", "resolving", "aborted", "rows", "committing",
                  "done", "rolled_back", "empty"}

ClaimedEdges ==
    {<<"idle", "reading">>, <<"done", "reading">>,
     <<"reading", "resolving">>, <<"reading", "empty">>,
     <<"resolving", "aborted">>, <<"resolving", "rows">>,
     <<"rows", "rows">>, <<"rows", "committing">>,
     <<"committing", "done">>, <<"committing", "rolled_back">>} \cup
    {<<t, "idle">> : t \in {"aborted", "done", "rolled_back", "empty"}}

CountOf(seq, x) == Cardinality({i \in 1..Len(seq) : seq[i] = x})

\* the order of an upload's effects, at every state
UploadOrdered(w) ==
    LET u == up[w]
        s == sess[w]
    IN
    /\ (u.idx > 0 \/ s.ops # <<>>) =>
           /\ u.pc \in {"rows", "committing", "done", "rolled_back"}
           /\ MissingRequired(u.kind, u.resolved) = <<>>
    /\ u.idx <= Len(u.file.rows)
    /\ CountOf(s.ops, "commit") = IF u.pc \in {"done", "rolled_back"} THEN 1 ELSE 0
    /\ u.pc \in PastRows => u.idx = Len(u.file.rows) /\ Len(u.outcomes) = Len(u.file.rows)
    /\ CountOf(s.ops, "rollback") = IF u.pc = "rolled_back" THEN 1 ELSE 0
    /\ u.pc = "rolled_back" =>
           SubSeq(s.ops, Len(s.ops) - 1, Len(s.ops)) = <<"commit", "rollback">>

\* the order of an upload's effects, at every step
UploadSteps(edges) ==
    /\ \A w \in Workers :
           /\ up'[w].pc = up[w].pc \/ <<up[w].pc, up'[w].pc>> \in edges
           /\ sess'[w].ops # sess[w].ops =>
                  \/ up[w].pc \in {"rows", "committing"}
                  \/ up'[w].pc \in {"reading", "idle"}
    /\ store' # store =>
           \/ Quiet
           \/ \E w \in Workers : up[w].pc = "committing" /\ up'[w].pc = "done"

GivenUser(req) == IF req.x_user_id # "" THEN req.x_user_id ELSE req.user

\* the row is in the conversation of the request and, when the request names
\* a user, of that user
InRequestedScope(row, req) ==
    /\ row.conversation_id = req.conversation_id
    /\ GivenUser(req) # "" => row.user_id = GivenUser(req)

\* C11: in every reachable state, whatever uploads, creates, updates and
\* deletes were interleaved, two concurrent creates of one identifier
\* included, a table holds at most one row per identifier within a
\* (conversation, user) scope.
C11_IdentifierUniqueInScope ==
    \A kind \in Kinds :
        \A r1, r2 \in store[kind] :
            (/\ r1.id = r2.id
             /\ r1.conversation_id = r2.conversation_id
             /\ r1.user_id = r2.user_id) => r1 = r2

\* two creates of one identifier passed the existence check together: one
\* stored its row, the commit of the other was refused
C11_Witness ==
    \E w, v \in Workers :
        /\ w # v
        /\ crud[w].op = "create" /\ crud[v].op = "create"
        /\ crud[w].pc = "done" /\ crud[v].pc = "done"
        /\ crud[w].kind = crud[v].kind
        /\ crud[w].wrote
        /\ crud[v].resp.status = 500
        /\ crud[v].obj.id = crud[w].obj.id
        /\ crud[w].obj \in store[crud[w].kind]

\* C12: a create whose identifier, trimmed as it would be stored, is the
\* identifier of a row that exists in the scope of the request is answered
\* 409 and leaves the store unchanged.
C12_DuplicateCreateConflicts ==
    \A w \in Workers :
        LET c == crud[w] IN
        (/\ c.op = "create"
         /\ c.pc \in {"commit", "done"}
         /\ \E row \in c.seen : InRequestedScope(row, c.req)) =>
            /\ c.pc = "done"
            /\ c.resp.status = 409
            /\ ~c.wrote

\* C13: a get, an update or a delete of an identifier no row of the requested
\* conversation (and of the requested user, when one is given) holds is
\* answered 404 and leaves the store unchanged, also when a row of another
\* conversation or of another user holds the identifier.
C13_ScopedLookupNotFound ==
    \A w \in Workers :
        LET c == crud[w] IN
        (/\ c.op \in {"get", "update", "delete"}
         /\ c.pc \in {"commit", "done"}
         /\ ~\E row \in c.seen : InRequestedScope(row, c.req)) =>
            /\ c.pc = "done"
            /\ c.resp.status = 404
            /\ ~c.wrote

\* an update was answered 404 while a row of another scope held the identifier
C13_Witness ==
    \E w \in Workers :
        LET c == crud[w] IN
        /\ c.op = "update"
        /\ c.pc = "done"
        /\ c.resp.status = 404
        /\ \E row \in c.seen : row.conversation_id # c.req.conversation_id
        /\ \E row \in store[c.kind] : row.id = c.id

\* C14: a dataset fetch is answered only for a limit of 1..1000; the rows it
\* returns are rows of the requested conversation and, when a user is given
\* (the header before the query parameter), of that user, and it returns at
\* most limit resources and at most limit projects.
C14_DatasetScopedAndBounded ==
    \A w \in Workers :
        LET c == crud[w] IN
        (c.op = "dataset" /\ c.pc = "done") =>
            /\ c.resp.status = 200 <=> c.limit \in 1..1000
            /\ c.resp.status = 200 =>
                   /\ Len(c.resp.resources) <= c.limit
                   /\ Len(c.resp.projects) <= c.limit
                   /\ \A i \in 1..Len(c.resp.resources) :
                          \E row \in store["resource"] :
                              row.id = c.resp.resources[i].id /\ InRequestedScope(row, c.req)
                   /\ \A i \in 1..Len(c.resp.projects) :
                          \E row \in store["project"] :
                              row.id = c.resp.projects[i].project_id /\ InRequestedScope(row, c.req)

\* a fetch with limit 1 of a conversation that holds two resources, while
\* another conversation holds rows too
C14_Witness ==
    \E w \in Workers :
        LET c == crud[w] IN
        /\ c.op = "dataset" /\ c.pc = "done" /\ c.limit = 1
        /\ Len(c.resp.resources) = 1
        /\ Cardinality({row \in store["resource"] : InRequestedScope(row, c.req)}) = 2
        /\ \E row \in store["project"] : row.conversation_id # c.req.conversation_id


(***************************************************************************)
(* Properties of the conversation store                                    *)
(***************************************************************************)
IsPrefix(a, b) == Len(a) <= Len(b) /\ SubSeq(b, 1, Len(a)) = a

\* a get_messages request answered with messages
ReadDone(c) == c.op = "get_messages" /\ c.pc = "done" /\ c.resp.status = 200

\* C15: the message log of a conversation is append-only: in every step that
\* leaves the file in place, the messages read from it before the step are a
\* prefix of the messages read from it after the step, whatever the operation
\* (append_message, ask, get_messages, get_conversation, list_conversations,
\* upload_files); and a read of the whole log returns those messages
C15_LogAppendOnly ==
    /\ [][\A p \in Paths :
             (conv.files[p].exists /\ conv'.files[p].exists)
                 => IsPrefix(read_all_valid_messages(conv.files[p].lines),
                             read_all_valid_messages(conv'.files[p].lines))]_vars
    /\ [](\A w \in Workers :
             (ReadDone(cv[w]) /\ cv[w].offset = 0
                  /\ cv[w].limit >= Len(read_all_valid_messages(cv[w].snapshot)))
                 => cv[w].resp.messages = read_all_valid_messages(cv[w].snapshot))

\* a read returned two messages while a third append is under way on the file
C15_Witness ==
    /\ ReadDone(cv["w1"]) /\ Len(cv["w1"].resp.messages) = 2
    /\ cv["w2"].pc = "writing" /\ cv["w2"].path = cv["w1"].path
    /\ Len(read_all_valid_messages(conv.files[cv["w1"].path].lines)) = 2

\* C16: an append_message whose content is empty after trimming is answered
\* 422 and leaves the conversation as it was (the files, their lines, the
\* lock); the answer is 404 only when the conversation does not exist
C16_BlankContentRejected ==
    [][\A w \in Workers :
          (cv[w].pc = "idle" /\ cv'[w].op = "append_message" /\ Strip(cv'[w].content) = "")
              => /\ conv' = conv
                 /\ cv'[w].pc = "done"
                 /\ cv'[w].resp.status \in {404, 422}
                 /\ cv'[w].resp.status = 404 => ~conv.files[cv'[w].path].exists]_vars

\* blanks were sent to a conversation that holds a message, and refused
C16_Witness ==
    \E w \in Workers :
        /\ cv[w].op = "append_message" /\ cv[w].content = "  "
        /\ cv[w].resp.status = 422
        /\ cv[w].path \in Paths
        /\ Len(read_all_valid_messages(conv.files[cv[w].path].lines)) = 1

\* C17: once delete_conversation has succeeded for a conversation, every
\* get_conversation, get_messages, append_message and delete_conversation
\* that begins afterwards for the same user and identifier is answered 404
C17_DeletedStaysNotFound ==
    \A w \in Workers :
        (cv[w].late /\ cv[w].op \in {"get_conversation", "get_messages", "append_message",
                                     "delete_conversation"})
            => cv[w].pc = "done" /\ cv[w].resp.status = 404

TagsOf(lines) == [i \in 1..Len(lines) |-> lines[i].tag]

\* an append (of append_message or of ask) that has returned its record
Returned(c) ==
    \/ c.op = "append_message" /\ c.pc = "done" /\ c.resp.status = 200
    \/ c.op = "ask" /\ c.pc \in {"webhook", "done"} /\ c.tag > 0

\* C18: appends to one conversation are serialized by the lock of its file:
\* as long as the conversation is not deleted, the lines of the log are the
\* appends in the order in which they took the lock, every line but the one
\* being written is a whole message, and each append that has returned is in
\* the log exactly once, whole and with its own record
C18_AppendsSerialized ==
    \A p \in Paths :
        LET lines == conv.files[p].lines IN
        (conv.files[p].exists /\ p \notin conv.deleted)
            => /\ IsPrefix(TagsOf(lines), conv.order[p])
               /\ Len(conv.order[p]) <= Len(lines) + 1
               /\ \A i \in 1..Len(lines) :
                      \/ lines[i].state = "whole"
                      \/ i = Len(lines) /\ \E w \in Workers : cv[w].pc = "writing" /\ cv[w].tag = lines[i].tag
               /\ \A w \in Workers :
                      (Returned(cv[w]) /\ cv[w].path = p)
                          => /\ Cardinality({i \in 1..Len(lines) : lines[i].tag = cv[w].tag}) = 1
                             /\ \E i \in 1..Len(lines) :
                                    lines[i] = [rec |-> cv[w].rec, tag |-> cv[w].tag, state |-> "whole"]

\* two clients have each appended to the same conversation, one after the
\* other under the lock, and both have their answer
C18_Witness ==
    /\ \A w \in Workers : cv[w].op = "append_message" /\ cv[w].pc = "done" /\ cv[w].resp.status = 200
    /\ cv["w1"].path = cv["w2"].path
    /\ cv["w1"].path \notin conv.deleted
    /\ conv.order[cv["w1"].path] = <<cv["w2"].tag, cv["w1"].tag>>
    /\ TagsOf(conv.files[cv["w1"].path].lines) = <<cv["w2"].tag, cv["w1"].tag>>

\* C19: a get_messages that reads the file while an append is writing to it
\* is never answered with an error and returns only whole messages: each
\* message of the answer is the record of a line that was wholly in the file
C19_ReadsOnlyWholeMessages ==
    \A w \in Workers :
        (cv[w].op = "get_messages" /\ cv[w].pc = "done" /\ cv[w].resp.status \notin {404, 422})
            => /\ cv[w].resp.status = 200
               /\ \A i \in 1..Len(cv[w].resp.messages) :
                      \E j \in 1..Len(cv[w].snapshot) :
                          /\ cv[w].snapshot[j].state = "whole"
                          /\ cv[w].snapshot[j].rec = cv[w].resp.messages[i]

\* the number of messages a window of limit messages holds once offset of the
\* n messages are skipped
WindowLen(n, limit, offset) ==
    IF offset >= n THEN 0 ELSE IF limit < n - offset THEN limit ELSE n - offset

\* C20 as stated: get_messages(offset, limit) returns, oldest first, the
\* messages at positions offset .. offset+limit-1 counted from the oldest
\* message, and nothing when offset >= n
C20_WindowFromOldest ==
    \A w \in Workers :
        LET c    == cv[w]
            msgs == read_all_valid_messages(c.snapshot)
            k    == WindowLen(Len(msgs), c.limit, c.offset)
        IN  ReadDone(c)
                => /\ Len(c.resp.messages) = k
                   /\ \A i \in 1..k : c.resp.messages[i] = msgs[c.offset + i]

\* C20: get_messages(offset, limit) skips the offset newest messages and
\* returns, oldest first, the at most limit messages before them (positions
\* n-offset-limit .. n-offset-1 counted from the oldest, cut at the first
\* message), and nothing when offset >= n
C20_WindowFromNewest ==
    \A w \in Workers :
        LET c    == cv[w]
            msgs == read_all_valid_messages(c.snapshot)
            n    == Len(msgs)
            k    == WindowLen(n, c.limit, c.offset)
        IN  ReadDone(c)
                => /\ Len(c.resp.messages) = k
                   /\ \A i \in 1..k : c.resp.messages[i] = msgs[n - c.offset - k + i]
                   /\ c.offset >= n => c.resp.messages = <<>>

\* of two messages, a read with limit 1 and offset 0 returned the newer one
C20_Witness ==
    LET c    == cv["w1"]
        msgs == read_all_valid_messages(c.snapshot)
    IN  /\ ReadDone(c) /\ c.limit = 1 /\ c.offset = 0
        /\ Len(msgs) = 2 /\ msgs[1] # msgs[2]
        /\ c.resp.messages = <<msgs[2]>>

\* C26: whatever the interleaving of delete_conversation with an append to
\* the same conversation, once a delete has succeeded the file of the
\* conversation never exists again
C26_DeleteIsFinal ==
    \A p \in Paths : p \in conv.deleted => ~conv.files[p].exists

\* no append holds the lock of the file
NoAppendUnderWay(p) ==
    \A w \in Workers : cv[w].path = p => cv[w].pc \notin {"locked", "writing"}

\* C29: for an existing conversation, when no append is under way, the count
\* of its summary equals the number of messages get_messages returns with
\* offset 0 and a limit that covers them all, and this is the number of
\* appends that succeeded since the conversation was created
C29_CountsAgree ==
    \A p \in Paths :
        LET msgs == read_all_valid_messages(conv.files[p].lines) IN
        (conv.files[p].exists /\ p \notin conv.deleted /\ NoAppendUnderWay(p))
            => /\ Summary(p).status = 200
               /\ Summary(p).count = Len(MessageSlice(msgs, Len(msgs) + 1, 0))
               /\ Summary(p).count = Len(conv.order[p])

\* after two appends, a summary reported the count 2 and nothing is under way
C29_Witness ==
    LET c == cv["w1"] IN
    /\ c.op = "get_conversation" /\ c.pc = "done" /\ c.resp.status = 200
    /\ c.resp.count = 2
    /\ c.path \notin conv.deleted /\ NoAppendUnderWay(c.path)
    /\ Len(conv.order[c.path]) = 2

\* the outcomes in which the webhook fails: the call raises, or the reply
\* holds nothing usable
FailedHooks == {"timeout", "error_status", "empty_text", "bad_json", "blank_string"}

\* C21: when the webhook of an ask fails (no connection, timeout, error
\* status, a reply that does not parse or is empty), the answer is a
\* placeholder text, not empty, and the ask ends in 200 with that answer; it
\* ends otherwise only in 404, when the conversation was deleted meanwhile
C21_WebhookFailureDegrades ==
    \A w \in Workers :
        LET c == cv[w] IN
        (c.op = "ask" /\ c.hook \in FailedHooks)
            => /\ c.answer \in {"(n8n error: timed out)", "(n8n error: )", "(No answer returned by AI.)"}
               /\ c.pc \in {"wait", "locked", "writing", "done"}
               /\ c.pc = "done"
                      => \/ c.resp.status = 200 /\ c.resp.answer = c.answer
                         \/ c.resp.status = 404 /\ c.path \in conv.deleted

\* an ask whose webhook replied with a body that does not parse has returned
\* the placeholder
C21_Witness ==
    LET c == cv["w1"] IN
    /\ c.op = "ask" /\ c.hook = "bad_json" /\ c.pc = "done"
    /\ c.resp = [status |-> 200, answer |-> "(No answer returned by AI.)"]

\* the positions of the lines of a file that carry a tag
LinesOf(p, tag) == {i \in 1..Len(conv.files[p].lines) : conv.files[p].lines[i].tag = tag}

\* C25: an ask that has returned 200 has appended exactly two messages of its
\* own: a user message with the trimmed question and, after it in the log, an
\* assistant message whose content is the returned answer, not empty; an ask
\* refused at its first append has appended nothing and called no webhook
C25_AskAppendsQuestionThenAnswer ==
    \A w \in Workers :
        LET c     == cv[w]
            lines == conv.files[c.path].lines
        IN
        /\ (c.op = "ask" /\ c.pc = "done" /\ c.resp.status = 200)
               => /\ Cardinality(LinesOf(c.path, c.first)) = 1
                  /\ Cardinality(LinesOf(c.path, c.tag)) = 1
                  /\ \E i \in LinesOf(c.path, c.first), j \in LinesOf(c.path, c.tag) :
                         /\ i < j
                         /\ lines[i].rec.role = "user"
                         /\ lines[i].rec.content = Strip(c.content)
                         /\ lines[j].rec.role = "assistant"
                         /\ lines[j].rec.content = c.resp.answer
                         /\ c.resp.answer # ""
        /\ (c.op = "ask" /\ c.pc = "done" /\ c.rec = NoRec)
               => c.resp.status \in {404, 422} /\ c.hook = "" /\ c.tag = 0

(***************************************************************************)
(* Properties of updates, of concurrent uploads and of the row loop        *)
(***************************************************************************)
\* the field of a row that holds its skills
SkillsField(row) == IF "skills" \in DOMAIN row THEN "skills" ELSE "required_skills"

\* C27: an update that commits changes only the fields that are in its body
\* and not null, of the one row it addresses: the identifier, conversation
\* and user of that row, every field left out or null, and every other row
\* stay as they were
C27_UpdateIsPartial ==
    [][\A w \in Workers :
          LET c == crud[w] IN
          (c.pc = "commit" /\ c.op = "update" /\ crud'[w].pc = "done")
              => /\ \A k \in Kinds : k # c.kind => store'[k] = store[k]
                 /\ Cardinality(store'[c.kind]) = Cardinality(store[c.kind])
                 /\ \A row \in store[c.kind] :
                        IF row.id # c.obj.id THEN row \in store'[c.kind]
                        ELSE \E new \in store'[c.kind] :
                                 /\ new.id = row.id
                                 /\ \A f \in DOMAIN row \ {"name", SkillsField(row)} : new[f] = row[f]
                                 /\ c.patch.name.t = "none" => new.name = row.name
                                 /\ c.patch.skills.t \in {"unset", "none"}
                                        => new[SkillsField(row)] = row[SkillsField(row)]]_vars

\* the 0-based positions of the rows that failed, in row order
FailedRows(outcomes) ==
    SelectSeq([i \in 1..Len(outcomes) |-> i - 1], LAMBDA i : outcomes[i + 1] # "ok")

\* C28: throughout the row loop the ingested and the failed rows add up to
\* the rows attempted so far, and to the row count of the table in the
\* success response; the sample holds min(failed, ROW_ERROR_LIMIT) errors,
\* those of the first failing rows in row order
C28_RowCountersAddUp ==
    LET u == up["w1"] IN
    u.pc \in {"rows", "committing", "done", "rolled_back"}
        => /\ u.ok + u.failed = u.idx
           /\ Len(u.outcomes) = u.idx
           /\ u.failed = Len(FailedRows(u.outcomes))
           /\ Len(u.row_errors) = IF u.failed < ROW_ERROR_LIMIT THEN u.failed ELSE ROW_ERROR_LIMIT
           /\ \A k \in 1..Len(u.row_errors) : u.row_errors[k].row_index = FailedRows(u.outcomes)[k]
           /\ u.pc = "done"
                  => /\ u.resp.rows_ingested + u.resp.rows_failed = Len(u.file.rows)
                     /\ u.resp.sample_errors = u.row_errors

\* an upload that ingested rows and answered 200 after more rows failed than
\* the sample holds
C28_Witness ==
    LET u == up["w1"] IN
    /\ u.pc = "done"
    /\ u.resp.rows_ingested > 0
    /\ u.resp.rows_failed > ROW_ERROR_LIMIT
    /\ Len(u.resp.sample_errors) = ROW_ERROR_LIMIT

\* the dataset fetch that names the conversation and the user of a row
ScopeOf(row) == [conversation_id |-> row.conversation_id, x_user_id |-> row.user_id, user |-> ""]

\* C24: a row of an upload whose identifier equals that of a row stored under
\* another (conversation, user) scope overwrites that row, ownership
\* included: the upload completes, the row is counted ingested, and the store
\* holds exactly one row of that identifier, which is in the scope of the
\* upload and is not in the dataset of the scope that held it before
C24_CrossScopeOverwrites ==
    \A w \in Workers :
        LET u == up[w] IN
        (u.pc \in Terminal /\ AllRequiredPresent(u) /\ u.dbOk) =>
            \A i \in 1..Len(u.file.rows) :
                \A old \in u.store0[u.kind] :
                    (RowFits(u, i) /\ old.id = RowKey(u, i) /\ ~SameScope(old, u.req)) =>
                        /\ u.pc = "done"
                        /\ u.outcomes[i] = "ok"
                        /\ u.resp.rows_ingested >= 1
                        /\ Cardinality({row \in store[u.kind] : row.id = old.id}) = 1
                        /\ \A row \in store[u.kind] :
                               row.id = old.id =>
                                   /\ SameScope(row, u.req)
                                   /\ ~InScope(row, ScopeOf(old))

\* two uploads overlapped: one arrived while the other was under way
Overlapped(w, v) == v \in up[w].conc \/ w \in up[v].conc

\* C23: two uploads of one table that overlap, each with a row of the same
\* identifier, and whose commits the store would accept: both complete with
\* that row counted ingested, and the stored row of that identifier is the
\* one of the upload that committed last
C23_LastCommittedWins ==
    \A w, v \in Workers :
        LET a == up[w]
            b == up[v]
        IN
        (/\ w # v /\ Overlapped(w, v)
         /\ a.pc \in Terminal /\ b.pc \in Terminal
         /\ a.kind = b.kind /\ a.dbOk /\ b.dbOk) =>
            \A i \in 1..Len(a.file.rows), j \in 1..Len(b.file.rows) :
                RowKey(a, i) = RowKey(b, j) =>
                    /\ a.pc = "done" /\ b.pc = "done"
                    /\ a.outcomes[i] = "ok" /\ b.outcomes[j] = "ok"
                    /\ v \in a.after =>
                           \A row \in store[a.kind] :
                               row.id = RowKey(a, i) => SameScope(row, a.req)

(***************************************************************************)
(* Properties of the uploads directory                                     *)
(***************************************************************************)
\* C22: upload_files never writes over a stored file: whatever uploads were
\* made, one after the other or at the same time, with the same file name or
\* not, every content that was written is stored in a file of its own
C22_UploadsNeverOverwrite ==
    \A d \in conv.saved : \E f \in conv.uploads : f.data = d

====
